---- MODULE Spec2Model ----
(***************************************************************************)
(* Attendance management (gestao_pec): events, attendance allocations with *)
(* conflict validation, recurring-event creation.                          *)
(*                                                                         *)
(* The relational store is modelled by the sets `eventos` and `alocacoes`  *)
(* of rows; primary keys come from the counters `seqEvento` and            *)
(* `seqAlocacao`.  Every HTTP handler is one action, except the bulk       *)
(* allocation handler, which runs without a transaction and is therefore   *)
(* split at each database statement so that two requests interleave.       *)
(***************************************************************************)
EXTENDS Integers, Sequences, FiniteSets, TLC

VARIABLES
    eventos,      \* rows of schedule_evento
    alocacoes,    \* rows of schedule_alocacaopresenca
    seqEvento,    \* last primary key handed out for an Evento
    seqAlocacao,  \* last primary key handed out for an AlocacaoPresenca
    pedidos,      \* the in-flight EventoAlocarView.post requests
    semestres,    \* rows of schedule_semestre
    turmas,       \* rows of schedule_turma
    alunos,       \* rows of schedule_aluno
    seqCadastro,  \* last primary keys of Semestre, Turma and Aluno
    last          \* what the last handler did: its input and its outcome

\* the registry of semesters, classes and students
cadastro == <<semestres, turmas, alunos, seqCadastro>>

vars == <<eventos, alocacoes, seqEvento, seqAlocacao, pedidos, semestres,
          turmas, alunos, seqCadastro, last>>

----------------------------------------------------------------------------
(* Bounds of the model *)

NumAlunos == 2
MaxEventos == 2
MaxAlocacoes == 2
MaxHora == 2
MaxData == 2
MaxIntervalo == 2
MaxPeso == 1
MaxDataGerador == 22
MaxIntervaloGerador == 3
MaxEventosRelatorio == 3
MaxAlocacoesRelatorio == 3
MaxPesoRelatorio == 2
MaxSemestres == 2
MaxTurmas == 2
MaxAlunosCadastro == 2
NumAlunosRanking == 11
NumOficinas == 2

----------------------------------------------------------------------------
(* Values *)

\* a field left empty in a request (Python's None); every real value is >= 0
Nulo == -1

Alunos == 1..NumAlunos
Horas == 0..MaxHora
Datas == 0..MaxData

\* the rows of schedule_oficina, by primary key
Oficinas == 1..NumOficinas

\* AlocacaoPresenca.Status
PREVISTO == "Previsto"
PRESENTE == "Presente"
AUSENTE == "Ausente"
DISPENSADO == "Dispensado"
Status == {PREVISTO, PRESENTE, AUSENTE, DISPENSADO}

\* Evento.Tipo
PERIODICO == "Periodico"
ESPORADICO == "Esporadico"
Tipo == {PERIODICO, ESPORADICO}

\* the time slots of one day; a timestamp is date * SlotsPorDia + time slot,
\* which orders timestamps as (date, time) pairs are ordered
SlotsPorDia == MaxHora + 1

\* datetime.combine(date, time)
combine(dt, hora) == dt * SlotsPorDia + hora

----------------------------------------------------------------------------
(* The store *)

EventoDe(pk) == CHOOSE e \in eventos : e.pk = pk

EventoPks == {e.pk : e \in eventos}

SemestreDe(pk) == CHOOSE x \in semestres : x.pk = pk

TurmaDe(pk) == CHOOSE t \in turmas : t.pk = pk

\* Turma.objects.filter(semestre__ativo=True)
TurmasAtivas == {t \in turmas : SemestreDe(t.semestre).ativo}

\* Aluno.objects.filter(turma__semestre__ativo=True)
AlunosAtivos == {a \in alunos : TurmaDe(a.turma) \in TurmasAtivas}

\* the statuses the conflict query selects
StatusAtivos == {PREVISTO, PRESENTE}

\* Sobrepoe with the bug of testing only whether the stored event starts
\* inside the candidate's window
Sobrepoe_inicioDentro(outro, proprio) ==
    /\ outro.inicio >= proprio.inicio
    /\ outro.inicio < proprio.fim

\* Sobrepoe with the bug of closed intervals: events that only touch overlap
Sobrepoe_fechado(outro, proprio) ==
    /\ outro.inicio <= proprio.fim
    /\ outro.fim >= proprio.inicio

\* the Q(...) of the conflict query: `outro` is the stored allocation's
\* event, `proprio` the candidate's event
Sobrepoe(outro, proprio) ==
    /\ outro.inicio < proprio.fim
    /\ outro.fim > proprio.inicio

\* Conflitos with the bug of not excluding the instance's own row
Conflitos_semExclude(rows, cand, proprio) ==
    {a \in rows :
        /\ a.aluno = cand.aluno
        /\ a.status \in StatusAtivos
        /\ Sobrepoe(EventoDe(a.evento), proprio)}

\* Conflitos with the bug of leaving the allocations to cancelled events out
Conflitos_semCancelados(rows, cand, proprio) ==
    {a \in rows :
        /\ a.aluno = cand.aluno
        /\ a.status \in StatusAtivos
        /\ ~EventoDe(a.evento).cancelado
        /\ Sobrepoe(EventoDe(a.evento), proprio)
        /\ (cand.pk # 0 => a.pk # cand.pk)}

\* AlocacaoPresenca.clean's queryset `conflitos`, over the rows `rows`.
\* cand.pk = 0 is an instance that has not been saved yet; `proprio` is
\* self.evento, the event as the instance holds it in memory.
Conflitos(rows, cand, proprio) ==
    {a \in rows :
        /\ a.aluno = cand.aluno
        /\ a.status \in StatusAtivos
        /\ Sobrepoe(EventoDe(a.evento), proprio)
        /\ (cand.pk # 0 => a.pk # cand.pk)}

\* clean with the bug of running the conflict query for every status of the
\* candidate
clean_semRetornoPorStatus(rows, cand, proprio) ==
    IF Conflitos(rows, cand, proprio) # {} THEN {"conflito"} ELSE {}

\* AlocacaoPresenca.clean: the errors it raises
clean(rows, cand, proprio) ==
    IF cand.status \notin StatusAtivos THEN {}
    ELSE IF Conflitos(rows, cand, proprio) # {} THEN {"conflito"}
    ELSE {}

\* Meta.unique_together as Model.validate_unique checks it in full_clean
validate_unique(rows, cand) ==
    IF \E a \in rows :
          a.evento = cand.evento /\ a.aluno = cand.aluno /\ a.pk # cand.pk
    THEN {"duplicado"}
    ELSE {}

\* Model.full_clean collects the errors of clean() and validate_unique()
full_clean(rows, cand, proprio) ==
    clean(rows, cand, proprio) \cup validate_unique(rows, cand)

\* ViolaUnique with the bug of a table without the UNIQUE index
ViolaUnique_semIndice(rows, cand) == FALSE

\* Meta.unique_together as the UNIQUE index of the table enforces it on
\* INSERT and UPDATE
ViolaUnique(rows, cand) ==
    \E a \in rows :
        a.evento = cand.evento /\ a.aluno = cand.aluno /\ a.pk # cand.pk

\* Model.save on the table: UPDATE the row with the instance's pk, INSERT when
\* the instance has no pk or no such row exists.  Returns the new table.
Gravar(rows, cand, novoPk) ==
    IF cand.pk # 0 /\ \E a \in rows : a.pk = cand.pk
    THEN {a \in rows : a.pk # cand.pk} \cup {cand}
    ELSE IF cand.pk # 0
    THEN rows \cup {cand}
    ELSE rows \cup {[cand EXCEPT !.pk = novoPk]}

\* AlocacaoPresenca.save: the errors of the whole call
ErrosSave(rows, cand, proprio, skip_validation) ==
    LET val == IF skip_validation THEN {}
               ELSE full_clean(rows, cand, proprio)
    IN IF val # {} THEN val
       ELSE IF ViolaUnique(rows, cand) THEN {"integridade"}
       ELSE {}

----------------------------------------------------------------------------
(* What a handler leaves behind for the properties: its name, the errors it    *)
(* reported, the allocation it was about, the event-creation form it got   *)
(* and the dates it generated.  A step of a bulk allocation leaves its     *)
(* name and its errors; its candidate is Candidato(p) of the state before. *)
(* The step that ends the request also leaves the request's two counts,    *)
(* `criados` and len(erros), which are Nulo otherwise.                     *)

SemForm ==
    [tipo |-> "", data |-> Nulo, hora_inicio |-> Nulo, hora_fim |-> Nulo,
     periodo |-> "", intervalo_dias |-> Nulo, data_fim_recorrencia |-> Nulo,
     peso_presenca |-> Nulo, titulo |-> "", local |-> "", oficinas |-> {}]

Resposta(op, erros, aluno, evento, status, form, datas) ==
    [op |-> op, erros |-> erros, aluno |-> aluno, evento |-> evento,
     status |-> status, form |-> form, datas |-> datas,
     criados |-> Nulo, falhas |-> Nulo, relatorio |-> Nulo,
     marcados |-> {}, selecionados |-> {}]

RespostaAlocacao(op, erros, cand) ==
    Resposta(op, erros, cand.aluno, cand.evento, cand.status, SemForm, <<>>)

RespostaEvento(op, erros, pk) ==
    Resposta(op, erros, 0, pk, "", SemForm, <<>>)

----------------------------------------------------------------------------
(* EventoCriarForm *)

\* EventoCriarForm.PERIODO_CHOICES
PERIODO_CHOICES == {"semanal", "quinzenal", "personalizado"}

\* the errors of the fields' own validation (required, choices, min_value)
ErrosCampos(f) ==
    {c \in {"tipo"} : f.tipo \notin Tipo}
    \cup {c \in {"data"} : f.data = Nulo}
    \cup {c \in {"hora_inicio"} : f.hora_inicio = Nulo}
    \cup {c \in {"hora_fim"} : f.hora_fim = Nulo}
    \cup {c \in {"periodo"} : f.periodo # "" /\ f.periodo \notin PERIODO_CHOICES}
    \cup {c \in {"intervalo_dias"} :
            f.intervalo_dias # Nulo /\ f.intervalo_dias < 1}
    \cup {c \in {"peso_presenca"} : f.peso_presenca = Nulo \/ f.peso_presenca < 1}
    \cup {c \in {"titulo"} : f.titulo = ""}
    \cup {c \in {"oficinas"} : ~(f.oficinas \subseteq Oficinas)}

\* cleaned_data.get(campo): None for a field that failed its validation
Cleaned(f, campo) ==
    IF campo \in ErrosCampos(f) THEN Nulo ELSE f[campo]

\* cleaned_data.get('periodo'): '' when empty, None when it failed
CleanedPeriodo(f) ==
    IF "periodo" \in ErrosCampos(f) THEN "" ELSE f.periodo

\* ErrosRecorrencia with the bug of accepting an end date equal to the start
ErrosRecorrencia_fimIgual(f) ==
    {c \in {"periodo"} : CleanedPeriodo(f) = ""}
    \cup {c \in {"intervalo_dias"} :
            /\ CleanedPeriodo(f) = "personalizado"
            /\ Cleaned(f, "intervalo_dias") \in {Nulo, 0}}
    \cup {c \in {"data_fim_recorrencia"} :
            \/ f.data_fim_recorrencia = Nulo
            \/ /\ Cleaned(f, "data") # Nulo
               /\ f.data_fim_recorrencia < f.data}

\* the add_error calls of the Periodic branch of EventoCriarForm.clean
ErrosRecorrencia(f) ==
    {c \in {"periodo"} : CleanedPeriodo(f) = ""}
    \cup {c \in {"intervalo_dias"} :
            /\ CleanedPeriodo(f) = "personalizado"
            /\ Cleaned(f, "intervalo_dias") \in {Nulo, 0}}
    \cup {c \in {"data_fim_recorrencia"} :
            \/ f.data_fim_recorrencia = Nulo
            \/ /\ Cleaned(f, "data") # Nulo
               /\ f.data_fim_recorrencia <= f.data}

\* EventoCriarForm.clean with the bug of not comparing the two times
EventoCriarForm_clean_semHoras(f) ==
    IF ("tipo" \notin ErrosCampos(f)) /\ f.tipo = PERIODICO
    THEN ErrosRecorrencia(f)
    ELSE {}

\* EventoCriarForm.clean: the errors it adds
EventoCriarForm_clean(f) ==
    IF /\ Cleaned(f, "hora_inicio") # Nulo
       /\ Cleaned(f, "hora_fim") # Nulo
       /\ f.hora_fim <= f.hora_inicio
    THEN {"__all__"}
    ELSE IF ("tipo" \notin ErrosCampos(f)) /\ f.tipo = PERIODICO
    THEN ErrosRecorrencia(f)
    ELSE {}

\* EventoCriarForm_errors with the bug of accepting a custom interval of 0
EventoCriarForm_errors_aceitaZero(f) ==
    (ErrosCampos(f) \cup EventoCriarForm_clean(f))
        \ {c \in {"intervalo_dias"} : f.intervalo_dias = 0}

\* form.errors; form.is_valid() is that there is none
EventoCriarForm_errors(f) == ErrosCampos(f) \cup EventoCriarForm_clean(f)

EventoCriarForm_is_valid(f) == EventoCriarForm_errors(f) = {}

----------------------------------------------------------------------------
(* Recurrence generation, EventoCreateView.post *)

SEMANAL == 7
QUINZENAL == 14

\* Intervalo with the bug of preferring the custom interval whenever a
\* positive one is supplied
Intervalo_personalizadoPrimeiro(d) ==
    IF d.intervalo_dias # Nulo /\ d.intervalo_dias >= 1 THEN d.intervalo_dias
    ELSE IF d.periodo = "semanal" THEN SEMANAL
    ELSE QUINZENAL

\* the stride chosen from the cadence
Intervalo(d) ==
    IF d.periodo = "semanal" THEN SEMANAL
    ELSE IF d.periodo = "quinzenal" THEN QUINZENAL
    ELSE d.intervalo_dias

\* the while loop: append `current` while it is <= the end date
RECURSIVE Recorrencia(_, _, _)
Recorrencia(current, intervalo, fim) ==
    IF current <= fim
    THEN <<current>> \o Recorrencia(current + intervalo, intervalo, fim)
    ELSE <<>>

\* the while loop with the bug of an exclusive end date
RECURSIVE RecorrenciaExclusiva(_, _, _)
RecorrenciaExclusiva(current, intervalo, fim) ==
    IF current < fim
    THEN <<current>> \o RecorrenciaExclusiva(current + intervalo, intervalo,
                                             fim)
    ELSE <<>>

\* GerarDatas with that loop
GerarDatas_fimExclusivo(d) ==
    <<d.data>> \o
        (IF d.tipo = PERIODICO
         THEN RecorrenciaExclusiva(d.data + Intervalo(d), Intervalo(d),
                                   d.data_fim_recorrencia)
         ELSE <<>>)

\* GerarDatas with the bug of recurring whenever the recurrence fields are
\* filled in, whatever the type
GerarDatas_camposPreenchidos(d) ==
    <<d.data>> \o
        (IF \/ d.tipo = PERIODICO
            \/ /\ d.periodo \in PERIODO_CHOICES
               /\ d.intervalo_dias # Nulo
               /\ d.data_fim_recorrencia # Nulo
         THEN Recorrencia(d.data + Intervalo(d), Intervalo(d),
                          d.data_fim_recorrencia)
         ELSE <<>>)

\* the list `datas` of a valid form
GerarDatas(d) ==
    <<d.data>> \o
        (IF d.tipo = PERIODICO
         THEN Recorrencia(d.data + Intervalo(d), Intervalo(d),
                          d.data_fim_recorrencia)
         ELSE <<>>)

\* NovoEvento with the bug of giving the workshops to the first event only
NovoEvento_oficinasNoPrimeiro(d, datas, i) ==
    [pk |-> seqEvento + i,
     tipo |-> d.tipo,
     inicio |-> combine(datas[i], d.hora_inicio),
     fim |-> combine(datas[i], d.hora_fim),
     peso |-> d.peso_presenca,
     cancelado |-> FALSE,
     titulo |-> d.titulo,
     local |-> d.local,
     oficinas |-> IF i = 1 THEN d.oficinas ELSE {}]

\* the Evento built for the i-th date of the list
NovoEvento(d, datas, i) ==
    [pk |-> seqEvento + i,
     tipo |-> d.tipo,
     inicio |-> combine(datas[i], d.hora_inicio),
     fim |-> combine(datas[i], d.hora_fim),
     peso |-> d.peso_presenca,
     cancelado |-> FALSE,
     titulo |-> d.titulo,
     local |-> d.local,
     oficinas |-> d.oficinas]

\* EventoCreateView.post with the form data f
EventoCreateView_post(f) ==
    IF EventoCriarForm_is_valid(f)
    THEN LET datas == GerarDatas(f)
         IN /\ seqEvento + Len(datas) <= MaxEventos
            /\ eventos' = eventos \cup
                    {NovoEvento(f, datas, i) : i \in 1..Len(datas)}
            /\ seqEvento' = seqEvento + Len(datas)
            /\ last' = [Resposta("criar", {}, 0, 0, "", f, datas)
                           EXCEPT !.criados = Len(datas)]
            /\ UNCHANGED <<alocacoes, seqAlocacao, pedidos, cadastro>>
    ELSE /\ last' = Resposta("criar", EventoCriarForm_errors(f), 0, 0, "",
                             f, <<>>)
         /\ UNCHANGED <<eventos, alocacoes, seqEvento, seqAlocacao, pedidos, cadastro>>

\* EventoCreateView.post with a valid form whose k-th evento.save() raises
\* (the database refuses the INSERT: locked file, lost connection).  The
\* handler opens no transaction and the settings leave autocommit on, so the
\* k - 1 events saved before are committed; the exception ends the request.
EventoCreateView_post_falha(f, k) ==
    LET datas == GerarDatas(f)
    IN /\ EventoCriarForm_is_valid(f)
       /\ k \in 1..Len(datas)
       /\ seqEvento + (k - 1) <= MaxEventos
       /\ eventos' = eventos \cup
               {NovoEvento(f, datas, i) : i \in 1..(k - 1)}
       /\ seqEvento' = seqEvento + (k - 1)
       /\ last' = [Resposta("criar_falha", {"excecao"}, 0, 0, "", f, datas)
                      EXCEPT !.criados = k - 1]
       /\ UNCHANGED <<alocacoes, seqAlocacao, pedidos, cadastro>>

----------------------------------------------------------------------------
(* Allocations saved one at a time: the admin's add and change views, both *)
(* of which end in AlocacaoPresenca.save()                                 *)

\* AlocacaoPresencaAdmin_add with the bug of a save() that writes the row
\* before it validates: a candidate that fails validation is stored all the
\* same, unless the unique index refuses it
AlocacaoPresencaAdmin_add_gravaAntes(aluno, evento, status) ==
    LET cand == [pk |-> 0, evento |-> evento, aluno |-> aluno,
                 status |-> status]
        erros == ErrosSave(alocacoes, cand, EventoDe(evento), FALSE)
    IN /\ evento \in EventoPks
       /\ last' = RespostaAlocacao("save", erros, cand)
       /\ IF ~ViolaUnique(alocacoes, cand)
          THEN /\ seqAlocacao < MaxAlocacoes
               /\ alocacoes' = Gravar(alocacoes, cand, seqAlocacao + 1)
               /\ seqAlocacao' = seqAlocacao + 1
          ELSE UNCHANGED <<alocacoes, seqAlocacao>>
       /\ UNCHANGED <<eventos, seqEvento, pedidos, cadastro>>

\* add an allocation of `aluno` to the event `evento` with `status`
AlocacaoPresencaAdmin_add(aluno, evento, status) ==
    LET cand == [pk |-> 0, evento |-> evento, aluno |-> aluno,
                 status |-> status]
        erros == ErrosSave(alocacoes, cand, EventoDe(evento), FALSE)
    IN /\ evento \in EventoPks
       /\ last' = RespostaAlocacao("save", erros, cand)
       /\ IF erros = {}
          THEN /\ seqAlocacao < MaxAlocacoes
               /\ alocacoes' = Gravar(alocacoes, cand, seqAlocacao + 1)
               /\ seqAlocacao' = seqAlocacao + 1
          ELSE UNCHANGED <<alocacoes, seqAlocacao>>
       /\ UNCHANGED <<eventos, seqEvento, pedidos, cadastro>>

\* change the stored allocation `pk` to (aluno, evento, status)
AlocacaoPresencaAdmin_change(pk, aluno, evento, status) ==
    LET cand == [pk |-> pk, evento |-> evento, aluno |-> aluno,
                 status |-> status]
        erros == ErrosSave(alocacoes, cand, EventoDe(evento), FALSE)
    IN /\ \E a \in alocacoes : a.pk = pk
       /\ evento \in EventoPks
       /\ last' = RespostaAlocacao("resave", erros, cand)
       /\ IF erros = {}
          THEN alocacoes' = Gravar(alocacoes, cand, 0)
          ELSE UNCHANGED alocacoes
       /\ UNCHANGED <<eventos, seqEvento, seqAlocacao, pedidos, cadastro>>

\* AlocacaoRemoverView.post
AlocacaoRemoverView_post(pk) ==
    /\ \E a \in alocacoes : a.pk = pk
    /\ alocacoes' = {a \in alocacoes : a.pk # pk}
    /\ last' = Resposta("remover", {}, 0, 0, "", SemForm, <<>>)
    /\ UNCHANGED <<eventos, seqEvento, seqAlocacao, pedidos, cadastro>>

----------------------------------------------------------------------------
(* Attendance marking: PresencaView.post and PresencaForm.save *)

\* PresencaForm.alocacoes: the event's allocations that are not Excused
PresencaForm_alocacoes(evento) ==
    {a \in alocacoes : a.evento = evento /\ a.status # DISPENSADO}

\* StatusMarcado with the bug of leaving an unchecked Planned allocation
\* Planned
StatusMarcado_mantemPrevisto(a, marcados) ==
    IF a.aluno \in marcados THEN PRESENTE
    ELSE IF a.status = PREVISTO THEN PREVISTO
    ELSE AUSENTE

\* the status PresencaForm.save writes to the allocation `a`
StatusMarcado(a, marcados) ==
    IF a.aluno \in marcados THEN PRESENTE ELSE AUSENTE

\* `marcados` are the students whose box is checked
PresencaView_post(evento, marcados) ==
    /\ evento \in EventoPks
    /\ ~EventoDe(evento).cancelado
    /\ marcados \subseteq {a.aluno : a \in PresencaForm_alocacoes(evento)}
    /\ alocacoes' =
          (alocacoes \ PresencaForm_alocacoes(evento)) \cup
          {[a EXCEPT !.status = StatusMarcado(a, marcados)] :
              a \in PresencaForm_alocacoes(evento)}
    /\ last' = [RespostaEvento("presenca", {}, evento)
                   EXCEPT !.marcados = marcados]
    /\ UNCHANGED <<eventos, seqEvento, seqAlocacao, pedidos, cadastro>>

----------------------------------------------------------------------------
(* Events: edit and cancel *)

\* EventoForm.clean
EventoForm_clean(novo) ==
    IF novo.inicio # Nulo /\ novo.fim # Nulo /\ novo.fim <= novo.inicio
    THEN {"__all__"}
    ELSE {}

\* EventoForm_errors with the bug of an EventoForm.clean that accepts
\* whatever window is posted
EventoForm_errors_semClean(novo) ==
    {c \in {"data_hora_inicio"} : novo.inicio = Nulo}
    \cup {c \in {"data_hora_fim"} : novo.fim = Nulo}
    \cup {c \in {"peso_presenca"} : novo.peso = Nulo}
    \cup {c \in {"titulo"} : novo.titulo = ""}

\* the required fields of EventoForm and its clean().  peso_presenca is the
\* model's IntegerField, which takes any integer.
EventoForm_errors(novo) ==
    {c \in {"data_hora_inicio"} : novo.inicio = Nulo}
    \cup {c \in {"data_hora_fim"} : novo.fim = Nulo}
    \cup {c \in {"peso_presenca"} : novo.peso = Nulo}
    \cup {c \in {"titulo"} : novo.titulo = ""}
    \cup EventoForm_clean(novo)

\* EventoUpdateView.post: `novo` holds the posted fields of the event `pk`
EventoUpdateView_post(pk, novo) ==
    /\ pk \in EventoPks
    /\ last' = RespostaEvento("editar", EventoForm_errors(novo), pk)
    /\ IF EventoForm_errors(novo) = {}
       THEN eventos' = (eventos \ {EventoDe(pk)}) \cup
                {[pk |-> pk, tipo |-> novo.tipo, inicio |-> novo.inicio,
                  fim |-> novo.fim, peso |-> novo.peso,
                  cancelado |-> novo.cancelado, titulo |-> novo.titulo,
                  local |-> novo.local, oficinas |-> novo.oficinas]}
       ELSE UNCHANGED eventos
    /\ UNCHANGED <<alocacoes, seqEvento, seqAlocacao, pedidos, cadastro>>

\* EventoCancelarView.post with the bug of setting the flag instead of
\* toggling it
EventoCancelarView_post_soCancela(pk) ==
    /\ pk \in EventoPks
    /\ eventos' = (eventos \ {EventoDe(pk)}) \cup
            {[EventoDe(pk) EXCEPT !.cancelado = TRUE]}
    /\ last' = RespostaEvento("cancelar", {}, pk)
    /\ UNCHANGED <<alocacoes, seqEvento, seqAlocacao, pedidos, cadastro>>

\* EventoCancelarView.post
EventoCancelarView_post(pk) ==
    /\ pk \in EventoPks
    /\ eventos' = (eventos \ {EventoDe(pk)}) \cup
            {[EventoDe(pk) EXCEPT !.cancelado = ~EventoDe(pk).cancelado]}
    /\ last' = RespostaEvento("cancelar", {}, pk)
    /\ UNCHANGED <<alocacoes, seqEvento, seqAlocacao, pedidos, cadastro>>

----------------------------------------------------------------------------
(* Bulk allocation: EventoAlocarView.post.  The handler opens no           *)
(* transaction, so every ORM call commits on its own: the SELECTs of       *)
(* full_clean() and the INSERT of Model.save() are separate steps.  The    *)
(* response follows the last student's step with no database call between. *)

Pedidos == {"p1", "p2"}

\* no event loaded
SemEvento == [pk |-> 0]

Ocioso == [pc |-> "idle", evento |-> SemEvento, selecionados |-> {},
           fila |-> {}, criados |-> 0, erros |-> 0]

\* AlocarAlunosForm_queryset with the bug of not filtering on the event's
\* workshops
AlocarAlunosForm_queryset_semOficinas(evento) ==
    LET ja_alocados == {x.aluno : x \in {y \in alocacoes : y.evento = evento}}
    IN {a.pk : a \in {b \in AlunosAtivos : b.pk \notin ja_alocados}}

\* AlocarAlunosForm's queryset: the students of active semesters not yet
\* allocated to the event; when the event has workshops, those of them who
\* have one of the event's workshops among their fixed workshops
AlocarAlunosForm_queryset(evento) ==
    LET ja_alocados == {x.aluno : x \in {y \in alocacoes : y.evento = evento}}
        oficinas_evento == EventoDe(evento).oficinas
        qs == {a \in AlunosAtivos : a.pk \notin ja_alocados}
    IN IF oficinas_evento # {}
       THEN {a.pk : a \in {b \in qs :
                               b.oficinas_fixas \cap oficinas_evento # {}}}
       ELSE {a.pk : a \in qs}

\* the student the for loop is at: the queryset is ordered by name
AlunoDaVez(p) == CHOOSE a \in pedidos[p].fila :
                    \A b \in pedidos[p].fila : a <= b

Candidato(p) ==
    [pk |-> 0, evento |-> pedidos[p].evento.pk, aluno |-> AlunoDaVez(p),
     status |-> PREVISTO]

\* the for loop is at its last student
UltimoDaFila(p) == pedidos[p].fila = {AlunoDaVez(p)}

\* Avancar with the bug of ending the request at the first student that
\* fails
Avancar_abortaNoErro(p, criados, erros) ==
    IF UltimoDaFila(p) \/ erros > 0
    THEN [pedidos EXCEPT ![p] = Ocioso]
    ELSE [pedidos EXCEPT ![p] =
            [pc |-> "clean",
             evento |-> pedidos[p].evento,
             selecionados |-> pedidos[p].selecionados,
             fila |-> pedidos[p].fila \ {AlunoDaVez(p)},
             criados |-> pedidos[p].criados + criados,
             erros |-> pedidos[p].erros + erros]]

\* the loop moves to the next student, or the request ends
Avancar(p, criados, erros) ==
    IF UltimoDaFila(p)
    THEN [pedidos EXCEPT ![p] = Ocioso]
    ELSE [pedidos EXCEPT ![p] =
            [pc |-> "clean",
             evento |-> pedidos[p].evento,
             selecionados |-> pedidos[p].selecionados,
             fila |-> pedidos[p].fila \ {AlunoDaVez(p)},
             criados |-> pedidos[p].criados + criados,
             erros |-> pedidos[p].erros + erros]]

\* what a step on a student leaves behind
RespostaAlocar(p, op, erros_item, criados, erros) ==
    [Resposta(op, erros_item, 0, 0, "", SemForm, <<>>) EXCEPT
        !.criados = IF UltimoDaFila(p) THEN pedidos[p].criados + criados
                    ELSE Nulo,
        !.falhas = IF UltimoDaFila(p) THEN pedidos[p].erros + erros
                   ELSE Nulo]

\* the request arrives: the event is loaded and the form validated
EventoAlocarView_post(p, evento, selecionados) ==
    /\ pedidos[p].pc = "idle"
    /\ evento \in EventoPks
    /\ selecionados # {}
    /\ IF selecionados \subseteq AlocarAlunosForm_queryset(evento)
       THEN /\ pedidos' = [pedidos EXCEPT ![p] =
                    [pc |-> "clean", evento |-> EventoDe(evento),
                     selecionados |-> selecionados, fila |-> selecionados,
                     criados |-> 0, erros |-> 0]]
            /\ last' = [RespostaEvento("alocar_form", {}, evento)
                           EXCEPT !.selecionados = selecionados]
       ELSE /\ UNCHANGED pedidos
            /\ last' = [RespostaEvento("alocar_form", {"alunos"}, evento)
                           EXCEPT !.selecionados = selecionados]
    /\ UNCHANGED <<eventos, alocacoes, seqEvento, seqAlocacao, cadastro>>

\* aloc.save(), first half: self.full_clean()
EventoAlocarView_full_clean(p) ==
    /\ pedidos[p].pc = "clean"
    /\ LET erros == full_clean(alocacoes, Candidato(p), pedidos[p].evento)
       IN IF erros = {}
          THEN /\ pedidos' = [pedidos EXCEPT ![p].pc = "insert"]
               /\ last' = RespostaEvento("alocar_clean", {}, 0)
          ELSE /\ pedidos' = Avancar(p, 0, 1)
               /\ last' = RespostaAlocar(p, "alocar_clean", erros, 0, 1)
    /\ UNCHANGED <<eventos, alocacoes, seqEvento, seqAlocacao, cadastro>>

\* aloc.save(), second half: super().save(), the INSERT
EventoAlocarView_insert(p) ==
    /\ pedidos[p].pc = "insert"
    /\ IF ViolaUnique(alocacoes, Candidato(p))
       THEN /\ last' = RespostaAlocar(p, "alocar_insert", {"integridade"},
                                      0, 1)
            /\ pedidos' = Avancar(p, 0, 1)
            /\ UNCHANGED <<alocacoes, seqAlocacao>>
       ELSE /\ seqAlocacao < MaxAlocacoes
            /\ last' = RespostaAlocar(p, "alocar_insert", {}, 1, 0)
            /\ alocacoes' = Gravar(alocacoes, Candidato(p), seqAlocacao + 1)
            /\ seqAlocacao' = seqAlocacao + 1
            /\ pedidos' = Avancar(p, 1, 0)
    /\ UNCHANGED <<eventos, seqEvento, cadastro>>

----------------------------------------------------------------------------
(* The registry: semesters, classes, students.  Create, update and delete  *)
(* views with their forms; on_delete of the foreign keys.                  *)

RespostaCadastro(op, erros, pk) ==
    Resposta(op, erros, 0, pk, "", SemForm, <<>>)

\* SemestreCreateView with SemestreForm
SemestreCreateView_post(ativo) ==
    /\ seqCadastro.semestre < MaxSemestres
    /\ semestres' = semestres \cup
            {[pk |-> seqCadastro.semestre + 1, ativo |-> ativo]}
    /\ seqCadastro' = [seqCadastro EXCEPT !.semestre = @ + 1]
    /\ last' = RespostaCadastro("semestre_criar", {},
                                seqCadastro.semestre + 1)
    /\ UNCHANGED <<eventos, alocacoes, seqEvento, seqAlocacao, pedidos,
                   turmas, alunos>>

\* SemestreUpdateView with SemestreForm
SemestreUpdateView_post(pk, ativo) ==
    /\ pk \in {x.pk : x \in semestres}
    /\ semestres' = {IF x.pk = pk THEN [x EXCEPT !.ativo = ativo] ELSE x :
                        x \in semestres}
    /\ last' = RespostaCadastro("semestre_editar", {}, pk)
    /\ UNCHANGED <<eventos, alocacoes, seqEvento, seqAlocacao, pedidos,
                   turmas, alunos, seqCadastro>>

\* SemestreDeleteView: Turma.semestre is on_delete=PROTECT, so the delete
\* raises ProtectedError while it collects the rows, before any is deleted
SemestreDeleteView_post(pk) ==
    /\ pk \in {x.pk : x \in semestres}
    /\ IF \E t \in turmas : t.semestre = pk
       THEN /\ last' = RespostaCadastro("semestre_excluir", {"protegido"}, pk)
            /\ UNCHANGED semestres
       ELSE /\ last' = RespostaCadastro("semestre_excluir", {}, pk)
            /\ semestres' = {x \in semestres : x.pk # pk}
    /\ UNCHANGED <<eventos, alocacoes, seqEvento, seqAlocacao, pedidos,
                   turmas, alunos, seqCadastro>>

\* TurmaForm.fields['semestre'].queryset: the semesters the form accepts
TurmaForm_semestres == {x.pk : x \in {y \in semestres : y.ativo}}

\* TurmaCreateView with TurmaForm
TurmaCreateView_post(semestre) ==
    IF semestre \in TurmaForm_semestres
    THEN /\ seqCadastro.turma < MaxTurmas
         /\ turmas' = turmas \cup
                 {[pk |-> seqCadastro.turma + 1, semestre |-> semestre]}
         /\ seqCadastro' = [seqCadastro EXCEPT !.turma = @ + 1]
         /\ last' = RespostaCadastro("turma_criar", {}, seqCadastro.turma + 1)
         /\ UNCHANGED <<eventos, alocacoes, seqEvento, seqAlocacao, pedidos,
                        semestres, alunos>>
    ELSE /\ last' = RespostaCadastro("turma_criar", {"semestre"}, 0)
         /\ UNCHANGED <<eventos, alocacoes, seqEvento, seqAlocacao, pedidos,
                        cadastro>>

\* TurmaUpdateView with TurmaForm
TurmaUpdateView_post(pk, semestre) ==
    /\ pk \in {t.pk : t \in turmas}
    /\ IF semestre \in TurmaForm_semestres
       THEN /\ turmas' = {IF t.pk = pk THEN [t EXCEPT !.semestre = semestre]
                          ELSE t : t \in turmas}
            /\ last' = RespostaCadastro("turma_editar", {}, pk)
       ELSE /\ last' = RespostaCadastro("turma_editar", {"semestre"}, pk)
            /\ UNCHANGED turmas
    /\ UNCHANGED <<eventos, alocacoes, seqEvento, seqAlocacao, pedidos,
                   semestres, alunos, seqCadastro>>

\* TurmaCopiarView.post with CopiarTurmaForm, whose semestre_destino takes
\* the active semesters.  copiar_turma, as the view describes it, copies the
\* class and its students into the destination semester.
TurmaCopiarView_post(pk, semestre_destino) ==
    LET origem == {a \in alunos : a.turma = pk}
        n == Cardinality(origem)
    IN /\ pk \in {t.pk : t \in turmas}
       /\ IF semestre_destino \in TurmaForm_semestres
          THEN /\ seqCadastro.turma < MaxTurmas
               /\ seqCadastro.aluno + n <= MaxAlunosCadastro
               /\ turmas' = turmas \cup
                       {[pk |-> seqCadastro.turma + 1,
                         semestre |-> semestre_destino]}
               /\ alunos' = alunos \cup
                       {[pk |-> seqCadastro.aluno + i,
                         turma |-> seqCadastro.turma + 1,
                         oficinas_fixas |-> {}] : i \in 1..n}
               /\ seqCadastro' = [seqCadastro EXCEPT !.turma = @ + 1,
                                                     !.aluno = @ + n]
               /\ last' = RespostaCadastro("turma_copiar", {},
                                           seqCadastro.turma + 1)
               /\ UNCHANGED semestres
          ELSE /\ last' = RespostaCadastro("turma_copiar",
                                           {"semestre_destino"}, pk)
               /\ UNCHANGED cadastro
       /\ UNCHANGED <<eventos, alocacoes, seqEvento, seqAlocacao, pedidos>>

\* TurmaDeleteView with the bug of foreign keys that do not cascade
TurmaDeleteView_post_semCascata(pk) ==
    /\ pk \in {t.pk : t \in turmas}
    /\ turmas' = {t \in turmas : t.pk # pk}
    /\ last' = RespostaCadastro("turma_excluir", {}, pk)
    /\ UNCHANGED <<eventos, alocacoes, seqEvento, seqAlocacao, pedidos,
                   semestres, alunos, seqCadastro>>

\* TurmaDeleteView: Aluno.turma and AlocacaoPresenca.aluno are
\* on_delete=CASCADE
TurmaDeleteView_post(pk) ==
    LET excluidos == {a.pk : a \in {x \in alunos : x.turma = pk}}
    IN /\ pk \in {t.pk : t \in turmas}
       /\ turmas' = {t \in turmas : t.pk # pk}
       /\ alunos' = {a \in alunos : a.pk \notin excluidos}
       /\ alocacoes' = {a \in alocacoes : a.aluno \notin excluidos}
       /\ last' = RespostaCadastro("turma_excluir", {}, pk)
       /\ UNCHANGED <<eventos, seqEvento, seqAlocacao, pedidos, semestres,
                      seqCadastro>>

\* AlunoForm.fields['turma'].queryset, also AlunoBulkForm's
AlunoForm_turmas == {t.pk : t \in TurmasAtivas}

\* AlunoCreateView with AlunoForm, no fixed workshop ticked
AlunoCreateView_post(turma) ==
    IF turma \in AlunoForm_turmas
    THEN /\ seqCadastro.aluno < MaxAlunosCadastro
         /\ alunos' = alunos \cup
                 {[pk |-> seqCadastro.aluno + 1, turma |-> turma,
                   oficinas_fixas |-> {}]}
         /\ seqCadastro' = [seqCadastro EXCEPT !.aluno = @ + 1]
         /\ last' = RespostaCadastro("aluno_criar", {}, seqCadastro.aluno + 1)
         /\ UNCHANGED <<eventos, alocacoes, seqEvento, seqAlocacao, pedidos,
                        semestres, turmas>>
    ELSE /\ last' = RespostaCadastro("aluno_criar", {"turma"}, 0)
         /\ UNCHANGED <<eventos, alocacoes, seqEvento, seqAlocacao, pedidos,
                        cadastro>>

\* AlunoUpdateView with AlunoForm
AlunoUpdateView_post(pk, turma) ==
    /\ pk \in {a.pk : a \in alunos}
    /\ IF turma \in AlunoForm_turmas
       THEN /\ alunos' = {IF a.pk = pk THEN [a EXCEPT !.turma = turma]
                          ELSE a : a \in alunos}
            /\ last' = RespostaCadastro("aluno_editar", {}, pk)
       ELSE /\ last' = RespostaCadastro("aluno_editar", {"turma"}, pk)
            /\ UNCHANGED alunos
    /\ UNCHANGED <<eventos, alocacoes, seqEvento, seqAlocacao, pedidos,
                   semestres, turmas, seqCadastro>>

\* AlunoBulkCreateView.post with AlunoBulkForm: n names, one student each
AlunoBulkCreateView_post(turma, n) ==
    IF turma \in AlunoForm_turmas /\ n >= 1
    THEN /\ seqCadastro.aluno + n <= MaxAlunosCadastro
         /\ alunos' = alunos \cup
                 {[pk |-> seqCadastro.aluno + i, turma |-> turma,
                   oficinas_fixas |-> {}] :
                     i \in 1..n}
         /\ seqCadastro' = [seqCadastro EXCEPT !.aluno = @ + n]
         /\ last' = RespostaCadastro("aluno_lote", {}, 0)
         /\ UNCHANGED <<eventos, alocacoes, seqEvento, seqAlocacao, pedidos,
                        semestres, turmas>>
    ELSE /\ last' = RespostaCadastro("aluno_lote",
                        {c \in {"turma"} : turma \notin AlunoForm_turmas}
                        \cup {c \in {"nomes"} : n < 1}, 0)
         /\ UNCHANGED <<eventos, alocacoes, seqEvento, seqAlocacao, pedidos,
                        cadastro>>

\* AlunoDeleteView: AlocacaoPresenca.aluno is on_delete=CASCADE
AlunoDeleteView_post(pk) ==
    /\ pk \in {a.pk : a \in alunos}
    /\ alunos' = {a \in alunos : a.pk # pk}
    /\ alocacoes' = {a \in alocacoes : a.aluno # pk}
    /\ last' = RespostaCadastro("aluno_excluir", {}, pk)
    /\ UNCHANGED <<eventos, seqEvento, seqAlocacao, pedidos, semestres,
                   turmas, seqCadastro>>

\* EventoDeleteView: AlocacaoPresenca.evento is on_delete=CASCADE
EventoDeleteView_post(pk) ==
    /\ pk \in EventoPks
    /\ eventos' = {e \in eventos : e.pk # pk}
    /\ alocacoes' = {a \in alocacoes : a.evento # pk}
    /\ last' = RespostaCadastro("evento_excluir", {}, pk)
    /\ UNCHANGED <<seqEvento, seqAlocacao, pedidos, cadastro>>

----------------------------------------------------------------------------
(* The selection lists the pages show *)

\* what a page with a selection list leaves behind: the primary keys listed
RespostaSelecao(op, listaSemestres, listaTurmas, listaAlunos) ==
    [Resposta(op, {}, 0, 0, "", SemForm, <<>>) EXCEPT
        !.relatorio = [semestres |-> listaSemestres, turmas |-> listaTurmas,
                       alunos |-> listaAlunos]]

\* TurmaListView.get_context_data: ctx['semestres'], the filter of the list
TurmaListView_get ==
    /\ last' = RespostaSelecao("turma_lista", {x.pk : x \in semestres}, {},
                               {})
    /\ UNCHANGED <<eventos, alocacoes, seqEvento, seqAlocacao, pedidos,
                   cadastro>>

\* the form of TurmaCreateView, TurmaUpdateView and TurmaCopiarView
TurmaCreateView_get ==
    /\ last' = RespostaSelecao("turma_form", TurmaForm_semestres, {}, {})
    /\ UNCHANGED <<eventos, alocacoes, seqEvento, seqAlocacao, pedidos,
                   cadastro>>

\* the form of AlunoCreateView, AlunoUpdateView and AlunoBulkCreateView, and
\* ctx['turmas'] of AlunoListView
AlunoCreateView_get ==
    /\ last' = RespostaSelecao("aluno_form", {}, AlunoForm_turmas, {})
    /\ UNCHANGED <<eventos, alocacoes, seqEvento, seqAlocacao, pedidos,
                   cadastro>>

\* EventoAlocarView.get: the students AlocarAlunosForm offers
EventoAlocarView_get(evento) ==
    /\ evento \in EventoPks
    /\ last' = RespostaSelecao("alocar_lista", {}, {},
                               AlocarAlunosForm_queryset(evento))
    /\ UNCHANGED <<eventos, alocacoes, seqEvento, seqAlocacao, pedidos,
                   cadastro>>

----------------------------------------------------------------------------
(* Reports: read-only views over the allocations *)

\* Sum('evento__peso_presenca') over the rows
RECURSIVE Soma(_)
Soma(rows) ==
    IF rows = {} THEN 0
    ELSE LET a == CHOOSE x \in rows : TRUE
         IN EventoDe(a.evento).peso + Soma(rows \ {a})

\* Aluno.total_presencas: aggregate() gives None over no row, and
\* `total or 0` turns None into 0
total_presencas(aluno) ==
    LET rows == {a \in alocacoes :
                    /\ a.aluno = aluno
                    /\ a.status = PRESENTE
                    /\ ~EventoDe(a.evento).cancelado}
        total == IF rows = {} THEN Nulo ELSE Soma(rows)
    IN IF total = Nulo \/ total = 0 THEN 0 ELSE total

\* PontosDaLinha with the bug of a When without the cancelled-event condition
PontosDaLinha_semCancelado(a) ==
    IF a.status = PRESENTE THEN EventoDe(a.evento).peso ELSE 0

\* the Case/When of the annotations: the weight of a Present allocation to
\* an event that is not cancelled, default 0
PontosDaLinha(a) ==
    IF a.status = PRESENTE /\ ~EventoDe(a.evento).cancelado
    THEN EventoDe(a.evento).peso
    ELSE 0

RECURSIVE SomaCase(_)
SomaCase(rows) ==
    IF rows = {} THEN 0
    ELSE LET a == CHOOSE x \in rows : TRUE
         IN PontosDaLinha(a) + SomaCase(rows \ {a})

\* the annotation Sum(Case(When(...), default=Value(0))) of a student: the
\* LEFT JOIN gives one row per allocation, or one row of NULLs, which takes
\* the default
PontosAnotados(aluno) ==
    SomaCase({a \in alocacoes : a.aluno = aluno})

\* AlocacoesValidas with the bug of a queryset without the filter
AlocacoesValidas_comCancelados(aluno) ==
    {a \in alocacoes : a.aluno = aluno}

\* aluno.alocacoes.filter(evento__cancelado=False)
AlocacoesValidas(aluno) ==
    {a \in alocacoes : a.aluno = aluno /\ ~EventoDe(a.evento).cancelado}

\* .filter(status=...).count()
Contar(rows, status) == Cardinality({a \in rows : a.status = status})

\* Python's round(n / d) of two non-negative integers, d > 0: to the
\* nearest integer, a half to the even one
round(n, d) ==
    LET q == n \div d
        r == n % d
    IN IF 2 * r < d THEN q
       ELSE IF 2 * r > d THEN q + 1
       ELSE IF q % 2 = 0 THEN q
       ELSE q + 1

\* round(presentes * 100 / total) if total else 0
Percentual(presentes, total) ==
    IF total # 0 THEN round(presentes * 100, total) ELSE 0

\* one entry of RelatorioPresencaTurmaView's dados_alunos
DadosAluno(aluno) ==
    [aluno |-> aluno,
     total_presencas |-> total_presencas(aluno),
     total_alocacoes |-> Cardinality(AlocacoesValidas(aluno)),
     presentes |-> Contar(AlocacoesValidas(aluno), PRESENTE),
     ausentes |-> Contar(AlocacoesValidas(aluno), AUSENTE),
     percentual |-> Percentual(Contar(AlocacoesValidas(aluno), PRESENTE),
                               Cardinality(AlocacoesValidas(aluno)))]

\* what a report leaves behind: `alvo` is the object it was asked for
RespostaRelatorio(op, alvo, relatorio) ==
    [Resposta(op, {}, 0, alvo, "", SemForm, <<>>) EXCEPT
        !.relatorio = relatorio]

\* RelatorioPresencaTurmaView.get_context_data with ?turma=<turma>
RelatorioPresencaTurmaView_get(turma) ==
    /\ turma \in {t.pk : t \in turmas}
    /\ last' = RespostaRelatorio("relatorio_turma", turma,
                    {DadosAluno(a.pk) : a \in {x \in alunos : x.turma = turma}})
    /\ UNCHANGED <<eventos, alocacoes, seqEvento, seqAlocacao, pedidos,
                   cadastro>>

\* RelatorioPresencaAlunoView.get_context_data: ctx['stats']
RelatorioPresencaAlunoView_get(aluno) ==
    LET rows == AlocacoesValidas(aluno)
    IN /\ aluno \in {a.pk : a \in alunos}
       /\ last' = RespostaRelatorio("relatorio_aluno", aluno,
                    [total |-> Cardinality(rows),
                     presentes |-> Contar(rows, PRESENTE),
                     ausentes |-> Contar(rows, AUSENTE),
                     dispensados |-> Contar(rows, DISPENSADO),
                     pontos |-> total_presencas(aluno),
                     percentual |-> Percentual(Contar(rows, PRESENTE),
                                               Cardinality(rows))])
       /\ UNCHANGED <<eventos, alocacoes, seqEvento, seqAlocacao, pedidos,
                      cadastro>>

\* RelatorioPresencaEventoView.get_queryset: the annotated events
RelatorioPresencaEventoView_get ==
    /\ last' = RespostaRelatorio("relatorio_evento", 0,
                    {[evento |-> e.pk,
                      total_alocados |->
                          Cardinality({a \in alocacoes : a.evento = e.pk}),
                      total_presentes |->
                          Contar({a \in alocacoes : a.evento = e.pk},
                                 PRESENTE),
                      total_ausentes |->
                          Contar({a \in alocacoes : a.evento = e.pk},
                                 AUSENTE)] :
                        e \in {x \in eventos : ~x.cancelado}})
    /\ UNCHANGED <<eventos, alocacoes, seqEvento, seqAlocacao, pedidos,
                   cadastro>>

\* AlunoListView.get_queryset: the students of active semesters with the
\* annotation total_presencas
AlunoListView_get ==
    /\ last' = RespostaRelatorio("lista_alunos", 0,
                    {[aluno |-> a.pk, total_presencas |-> PontosAnotados(a.pk)] :
                        a \in AlunosAtivos})
    /\ UNCHANGED <<eventos, alocacoes, seqEvento, seqAlocacao, pedidos,
                   cadastro>>

\* the length of the leaderboard: the slice [:10]
TOP_N == 10

\* OrdenarPorPontos with the bug of order_by('pontos'): ascending
RECURSIVE OrdenarPorPontos_crescente(_, _)
OrdenarPorPontos_crescente(linhas, crescente) ==
    IF linhas = {} THEN <<>>
    ELSE LET m == CHOOSE x \in linhas : \A y \in linhas :
                    \/ x.pontos < y.pontos
                    \/ /\ x.pontos = y.pontos
                       /\ IF crescente THEN x.aluno <= y.aluno
                          ELSE x.aluno >= y.aluno
         IN <<m>> \o OrdenarPorPontos_crescente(linhas \ {m}, crescente)

\* .order_by('-pontos') over the annotated students: by points, descending.
\* The order among students with equal points is the database's: the rows
\* as the scan meets them, by ascending or by descending primary key.
RECURSIVE OrdenarPorPontos(_, _)
OrdenarPorPontos(linhas, crescente) ==
    IF linhas = {} THEN <<>>
    ELSE LET m == CHOOSE x \in linhas : \A y \in linhas :
                    \/ x.pontos > y.pontos
                    \/ /\ x.pontos = y.pontos
                       /\ IF crescente THEN x.aluno <= y.aluno
                          ELSE x.aluno >= y.aluno
         IN <<m>> \o OrdenarPorPontos(linhas \ {m}, crescente)

\* ctx['top_alunos']: the annotated students of active semesters, ordered,
\* sliced
top_alunos(crescente) ==
    LET ordenados ==
            OrdenarPorPontos({[aluno |-> a.pk, pontos |-> PontosAnotados(a.pk)] :
                                 a \in AlunosAtivos}, crescente)
    IN SubSeq(ordenados, 1,
              IF Len(ordenados) < TOP_N THEN Len(ordenados) ELSE TOP_N)

\* AlocacaoPresenca.objects.filter(evento__cancelado=False,
\*                                aluno__turma__semestre__ativo=True)
AlocacoesGerais ==
    {a \in alocacoes :
        /\ ~EventoDe(a.evento).cancelado
        /\ a.aluno \in {x.pk : x \in AlunosAtivos}}

\* RelatorioGeralView.get_context_data (the counts of workshops and of
\* events by type are left out)
RelatorioGeralView_get(crescente) ==
    /\ last' = RespostaRelatorio("relatorio_geral", 0,
                    [total_turmas |-> Cardinality(TurmasAtivas),
                     total_alunos |-> Cardinality(AlunosAtivos),
                     total_eventos |->
                         Cardinality({e \in eventos : ~e.cancelado}),
                     total_alocacoes |-> Cardinality(AlocacoesGerais),
                     total_presentes |-> Contar(AlocacoesGerais, PRESENTE),
                     total_ausentes |-> Contar(AlocacoesGerais, AUSENTE),
                     percentual_presenca |->
                         Percentual(Contar(AlocacoesGerais, PRESENTE),
                                    Cardinality(AlocacoesGerais)),
                     top_alunos |-> top_alunos(crescente)])
    /\ UNCHANGED <<eventos, alocacoes, seqEvento, seqAlocacao, pedidos,
                   cadastro>>

----------------------------------------------------------------------------
(* Inputs *)

\* the event-creation forms the schedule is built from: one-off events of
\* day 0, every window of the day
PedidosAgenda ==
    {[tipo |-> ESPORADICO, data |-> 0, hora_inicio |-> j[1],
      hora_fim |-> j[2], periodo |-> "", intervalo_dias |-> Nulo,
      data_fim_recorrencia |-> Nulo, peso_presenca |-> 1,
      titulo |-> "A", local |-> "", oficinas |-> {}] :
        j \in {w \in Horas \X Horas : w[1] < w[2]}}

\* the one form of PedidosAgenda whose event fills the day
PedidosDiaInteiro ==
    {f \in PedidosAgenda : f.hora_inicio = 0 /\ f.hora_fim = MaxHora}

\* the posted fields of an event edit: a new window, the rest as stored
EdicoesAgenda(pk) ==
    {[tipo |-> EventoDe(pk).tipo, inicio |-> i, fim |-> f,
      peso |-> EventoDe(pk).peso, cancelado |-> EventoDe(pk).cancelado,
      titulo |-> EventoDe(pk).titulo, local |-> EventoDe(pk).local,
      oficinas |-> EventoDe(pk).oficinas] :
        i \in Horas, f \in Horas}

\* the event-creation forms of day 0 with any two times and any weight from
\* 0, one-off or repeated daily, with or without an end date
PedidosEvento ==
    [tipo : Tipo,
     data : {0},
     hora_inicio : Horas,
     hora_fim : Horas,
     periodo : {"personalizado"},
     intervalo_dias : {1},
     data_fim_recorrencia : {Nulo, 1},
     peso_presenca : 0..MaxPeso,
     titulo : {"A"},
     local : {""},
     oficinas : {{}}]

\* the posted fields of an event edit: any window of day 0, a time left
\* empty, and a weight left empty, below zero, zero or positive
EdicoesEvento(pk) ==
    {[tipo |-> EventoDe(pk).tipo, inicio |-> i, fim |-> f, peso |-> w,
      cancelado |-> EventoDe(pk).cancelado,
      titulo |-> EventoDe(pk).titulo, local |-> EventoDe(pk).local,
      oficinas |-> EventoDe(pk).oficinas] :
        i \in {Nulo} \cup Horas, f \in Horas,
        w \in {Nulo, -2} \cup (0..MaxPeso)}

----------------------------------------------------------------------------
(* Initial state and the steps of each specification *)

\* the registry the schedule is exercised on: one active semester with one
\* class, which holds every student
CadastroInicial ==
    /\ semestres = {[pk |-> 1, ativo |-> TRUE]}
    /\ turmas = {[pk |-> 1, semestre |-> 1]}
    /\ alunos = {[pk |-> a, turma |-> 1, oficinas_fixas |-> {}] : a \in Alunos}
    /\ seqCadastro = [semestre |-> 1, turma |-> 1, aluno |-> NumAlunos]

Init ==
    /\ eventos = {}
    /\ alocacoes = {}
    /\ seqEvento = 0
    /\ seqAlocacao = 0
    /\ pedidos = [p \in Pedidos |-> Ocioso]
    /\ CadastroInicial
    /\ last = Resposta("init", {}, 0, 0, "", SemForm, <<>>)

CriarEvento == \E f \in PedidosAgenda : EventoCreateView_post(f)

CriarEventoDiaInteiro ==
    \E f \in PedidosDiaInteiro : EventoCreateView_post(f)

Salvar ==
    \E a \in Alunos, e \in EventoPks, s \in Status :
        AlocacaoPresencaAdmin_add(a, e, s)

\* the admin's change view, used to change the status
Regravar ==
    \E x \in alocacoes, s \in Status :
        AlocacaoPresencaAdmin_change(x.pk, x.aluno, x.evento, s)

Remover == \E x \in alocacoes : AlocacaoRemoverView_post(x.pk)

Marcar ==
    \E e \in EventoPks, m \in SUBSET Alunos : PresencaView_post(e, m)

Editar ==
    \E e \in EventoPks : \E n \in EdicoesAgenda(e) :
        EventoUpdateView_post(e, n)

Cancelar == \E e \in EventoPks : EventoCancelarView_post(e)

AlocarPost ==
    \E p \in Pedidos, e \in EventoPks, sel \in SUBSET Alunos :
        EventoAlocarView_post(p, e, sel)

AlocarClean == \E p \in Pedidos : EventoAlocarView_full_clean(p)

AlocarInsert == \E p \in Pedidos : EventoAlocarView_insert(p)

\* every handler
Next ==
    \/ CriarEvento
    \/ Salvar
    \/ Regravar
    \/ Remover
    \/ Marcar
    \/ Editar
    \/ Cancelar
    \/ AlocarPost
    \/ AlocarClean
    \/ AlocarInsert

Spec == Init /\ [][Next]_vars

\* allocations saved one after the other, each save validated
NextSalvar ==
    \/ CriarEvento
    \/ Salvar
    \/ Regravar
    \/ Remover

SpecSalvar == Init /\ [][NextSalvar]_vars

\* bulk allocation requests running concurrently
NextAlocar ==
    \/ CriarEvento
    \/ AlocarPost
    \/ AlocarClean
    \/ AlocarInsert

SpecAlocar == Init /\ [][NextAlocar]_vars

\* allocations saved one after the other while events are cancelled and
\* restored
NextCancelar ==
    \/ CriarEvento
    \/ Salvar
    \/ Regravar
    \/ Cancelar

SpecCancelar == Init /\ [][NextCancelar]_vars

\* one bulk allocation request at a time
AlocarPostUm ==
    \E e \in EventoPks, sel \in SUBSET Alunos :
        EventoAlocarView_post("p1", e, sel)

\* validated saves to events that fill the day: the admin's, one at a time,
\* while a bulk request runs
NextFalhas ==
    \/ CriarEventoDiaInteiro
    \/ Salvar
    \/ Regravar
    \/ AlocarPostUm
    \/ AlocarClean
    \/ AlocarInsert

SpecFalhas == Init /\ [][NextFalhas]_vars

\* allocations saved one at a time and attendance marked
NextPresenca ==
    \/ CriarEvento
    \/ Salvar
    \/ Marcar
    \/ Remover

SpecPresenca == Init /\ [][NextPresenca]_vars

\* allocations saved one at a time and events edited
NextEditar ==
    \/ CriarEvento
    \/ Salvar
    \/ Editar

SpecEditar == Init /\ [][NextEditar]_vars

\* allocations of one or several students by concurrent requests, attendance
\* markings and removals
NextAlocacoes ==
    \/ CriarEventoDiaInteiro
    \/ Marcar
    \/ Remover
    \/ AlocarPost
    \/ AlocarClean
    \/ AlocarInsert

SpecAlocacoes == Init /\ [][NextAlocacoes]_vars

----------------------------------------------------------------------------
(* Event creation on its own: every form a client can post *)

PedidosCriar ==
    [tipo : Tipo,
     data : Datas,
     hora_inicio : Horas,
     hora_fim : Horas,
     periodo : {""} \cup PERIODO_CHOICES,
     intervalo_dias : {Nulo} \cup (0..MaxIntervalo),
     data_fim_recorrencia : {Nulo} \cup Datas,
     peso_presenca : 1..MaxPeso,
     titulo : {"A"},
     local : {""},
     oficinas : {{}}]

\* the schedule the form arrives at: empty, or one event created before
AgendasCriar ==
    {{}} \cup
    {{[pk |-> 1, tipo |-> f.tipo, inicio |-> combine(f.data, f.hora_inicio),
       fim |-> combine(f.data, f.hora_fim), peso |-> f.peso_presenca,
       cancelado |-> FALSE,
      titulo |-> "A", local |-> "", oficinas |-> {}]} : f \in PedidosAgenda}

InitCriar ==
    /\ eventos \in AgendasCriar
    /\ alocacoes = {}
    /\ seqEvento = Cardinality(eventos)
    /\ seqAlocacao = 0
    /\ pedidos = [p \in Pedidos |-> Ocioso]
    /\ CadastroInicial
    /\ last \in {Resposta("entrada", {}, 0, 0, "", f, <<>>) :
                    f \in PedidosCriar}

\* the posted form is handled
Criar ==
    /\ last.op = "entrada"
    /\ EventoCreateView_post(last.form)

NextCriar ==
    \/ Criar

SpecCriar == InitCriar /\ [][NextCriar]_vars

\* the posted form is handled and one of its saves fails
CriarComFalha ==
    /\ last.op = "entrada"
    /\ \E k \in 1..(MaxEventos + 1) :
          EventoCreateView_post_falha(last.form, k)

\* event creation with database failures
NextSerie ==
    \/ Criar
    \/ CriarComFalha

SpecSerie == InitCriar /\ [][NextSerie]_vars

----------------------------------------------------------------------------
(* Recurrence generation as a function of the form: the form is the input, *)
(* the list of dates the output                                            *)

PedidosGerador ==
    [tipo : Tipo,
     data : Datas,
     hora_inicio : {0},
     hora_fim : {1},
     periodo : PERIODO_CHOICES,
     intervalo_dias : 1..MaxIntervaloGerador,
     data_fim_recorrencia : 0..MaxDataGerador,
     peso_presenca : {1},
     titulo : {"A"},
     local : {""},
     oficinas : {{}}]

InitDatas ==
    /\ eventos = {}
    /\ alocacoes = {}
    /\ seqEvento = 0
    /\ seqAlocacao = 0
    /\ pedidos = [p \in Pedidos |-> Ocioso]
    /\ CadastroInicial
    /\ last \in {Resposta("entrada", {}, 0, 0, "", f, <<>>) :
                    f \in PedidosGerador}

\* lines 731-750 of EventoCreateView.post: validate, then build `datas`
Gerar ==
    /\ last.op = "entrada"
    /\ last' = IF EventoCriarForm_is_valid(last.form)
               THEN Resposta("datas", {}, 0, 0, "", last.form,
                             GerarDatas(last.form))
               ELSE Resposta("datas", EventoCriarForm_errors(last.form),
                             0, 0, "", last.form, <<>>)
    /\ UNCHANGED <<eventos, alocacoes, seqEvento, seqAlocacao, pedidos, cadastro>>

NextDatas ==
    \/ Gerar

SpecDatas == InitDatas /\ [][NextDatas]_vars

\* the forms the stride is read from: every cadence, with a custom interval
\* that is missing, zero or positive, with or without an end date
PedidosPasso ==
    [tipo : Tipo,
     data : {0},
     hora_inicio : {0},
     hora_fim : {1},
     periodo : {""} \cup PERIODO_CHOICES,
     intervalo_dias : {Nulo} \cup (0..MaxIntervaloGerador),
     data_fim_recorrencia : {Nulo} \cup (0..MaxDataGerador),
     peso_presenca : {1},
     titulo : {"A"},
     local : {""},
     oficinas : {{}}]

InitPasso ==
    /\ eventos = {}
    /\ alocacoes = {}
    /\ seqEvento = 0
    /\ seqAlocacao = 0
    /\ pedidos = [p \in Pedidos |-> Ocioso]
    /\ CadastroInicial
    /\ last \in {Resposta("entrada", {}, 0, 0, "", f, <<>>) :
                    f \in PedidosPasso}

SpecPasso == InitPasso /\ [][NextDatas]_vars

\* the forms a series is created from: any title, location, weight and
\* workshops, one-off or repeated every day or every other day
PedidosLote ==
    [tipo : Tipo,
     data : {0},
     hora_inicio : {0, 1},
     hora_fim : {1, 2},
     periodo : {"personalizado"},
     intervalo_dias : {1, 2},
     data_fim_recorrencia : {1, 2},
     peso_presenca : 1..(MaxPeso + 1),
     titulo : {"A", "B"},
     local : {"", "L"},
     oficinas : SUBSET Oficinas]

InitLote ==
    /\ eventos \in AgendasCriar
    /\ alocacoes = {}
    /\ seqEvento = Cardinality(eventos)
    /\ seqAlocacao = 0
    /\ pedidos = [p \in Pedidos |-> Ocioso]
    /\ CadastroInicial
    /\ last \in {Resposta("entrada", {}, 0, 0, "", f, <<>>) :
                    f \in PedidosLote}

SpecLote == InitLote /\ [][NextCriar]_vars

----------------------------------------------------------------------------
(* Recurrence generation step by step: lines 731-750 of                    *)
(* EventoCreateView.post with the while loop run one iteration at a time.  *)
(* `last.datas` is the list `datas` built so far; the loop variable        *)
(* `current` is the last date appended plus the stride.                    *)

\* the loop variable `current`
Current == last.datas[Len(last.datas)] + Intervalo(last.form)

\* lines 731-746: validate, start the list, and enter the loop when Periodic
EventoCreateView_post_datas ==
    /\ last.op = "entrada"
    /\ last' = IF ~EventoCriarForm_is_valid(last.form)
               THEN Resposta("datas", EventoCriarForm_errors(last.form),
                             0, 0, "", last.form, <<>>)
               ELSE IF last.form.tipo = PERIODICO
               THEN Resposta("laco", {}, 0, 0, "", last.form,
                             <<last.form.data>>)
               ELSE Resposta("datas", {}, 0, 0, "", last.form,
                             <<last.form.data>>)
    /\ UNCHANGED <<eventos, alocacoes, seqEvento, seqAlocacao, pedidos,
                   cadastro>>

\* lines 747-750, one iteration: the condition holds, `current` is appended
\* and advanced.  The list is capped beyond the longest list a stride >= 1
\* can give.
EventoCreateView_post_while ==
    /\ last.op = "laco"
    /\ Current <= last.form.data_fim_recorrencia
    /\ Len(last.datas) <= MaxDataGerador + 1
    /\ last' = [last EXCEPT !.datas = Append(@, Current)]
    /\ UNCHANGED <<eventos, alocacoes, seqEvento, seqAlocacao, pedidos,
                   cadastro>>

\* line 748: the condition fails and the loop is left
EventoCreateView_post_while_fim ==
    /\ last.op = "laco"
    /\ Current > last.form.data_fim_recorrencia
    /\ last' = [last EXCEPT !.op = "datas"]
    /\ UNCHANGED <<eventos, alocacoes, seqEvento, seqAlocacao, pedidos,
                   cadastro>>

NextLaco ==
    \/ EventoCreateView_post_datas
    \/ EventoCreateView_post_while
    \/ EventoCreateView_post_while_fim

\* the request's thread keeps running: a step that can be taken is taken
SpecLaco == InitPasso /\ [][NextLaco]_vars /\ WF_vars(NextLaco)

----------------------------------------------------------------------------
(* The reports over a store of events held on different days: any student  *)
(* may hold any allocations to them                                        *)

\* the weight of the event e: the weights take turns
PesoRelatorio(e) == ((e - 1) % MaxPesoRelatorio) + 1

EventosRelatorio ==
    {[pk |-> e, tipo |-> ESPORADICO, inicio |-> combine(e, 0),
      fim |-> combine(e, 1), peso |-> PesoRelatorio(e),
      cancelado |-> FALSE,
      titulo |-> "A", local |-> "", oficinas |-> {}] : e \in 1..MaxEventosRelatorio}

\* the tables of allocations: at most MaxAlocacoesRelatorio rows, one per
\* (student, event) pair at most, of any status
AlocacoesRelatorio ==
    UNION {{{[pk |-> (par[1] - 1) * MaxEventosRelatorio + par[2],
              evento |-> par[2], aluno |-> par[1], status |-> st[par]] :
                par \in S} : st \in [S -> Status]} :
           S \in {T \in SUBSET (Alunos \X (1..MaxEventosRelatorio)) :
                     Cardinality(T) <= MaxAlocacoesRelatorio}}

\* two semesters with one class each, the second semester active or not;
\* the students alternate between the classes
InitRelatorios ==
    /\ eventos = EventosRelatorio
    /\ alocacoes \in AlocacoesRelatorio
    /\ seqEvento = MaxEventosRelatorio
    /\ seqAlocacao = NumAlunos * MaxEventosRelatorio
    /\ pedidos = [p \in Pedidos |-> Ocioso]
    /\ semestres \in {{[pk |-> 1, ativo |-> TRUE], [pk |-> 2, ativo |-> b]} :
                        b \in BOOLEAN}
    /\ turmas = {[pk |-> 1, semestre |-> 1], [pk |-> 2, semestre |-> 2]}
    /\ alunos = {[pk |-> a, turma |-> ((a - 1) % 2) + 1,
                 oficinas_fixas |-> {}] : a \in Alunos}
    /\ seqCadastro = [semestre |-> 2, turma |-> 2, aluno |-> NumAlunos]
    /\ last = Resposta("init", {}, 0, 0, "", SemForm, <<>>)

RelatorioTurma ==
    \E t \in turmas : RelatorioPresencaTurmaView_get(t.pk)

RelatorioAluno ==
    \E a \in alunos : RelatorioPresencaAlunoView_get(a.pk)

RelatorioEvento == RelatorioPresencaEventoView_get

RelatorioGeral == \E c \in BOOLEAN : RelatorioGeralView_get(c)

ListarAlunos == AlunoListView_get

NextRelatorios ==
    \/ Cancelar
    \/ RelatorioTurma
    \/ RelatorioAluno
    \/ RelatorioEvento
    \/ RelatorioGeral
    \/ ListarAlunos

SpecRelatorios == InitRelatorios /\ [][NextRelatorios]_vars

----------------------------------------------------------------------------
(* Cancel and restore on a schedule of two events that differ in every     *)
(* attribute, with any allocations to them                                 *)

EventosAlternar ==
    {[pk |-> 1, tipo |-> PERIODICO, inicio |-> combine(0, 0),
      fim |-> combine(0, 1), peso |-> 1, cancelado |-> FALSE,
      titulo |-> "A", local |-> "L", oficinas |-> {1}],
     [pk |-> 2, tipo |-> ESPORADICO, inicio |-> combine(1, 0),
      fim |-> combine(1, MaxHora), peso |-> MaxPeso + 1, cancelado |-> FALSE,
      titulo |-> "B", local |-> "", oficinas |-> {}]}

\* the tables of allocations to the two events: at most MaxAlocacoes rows,
\* one per (student, event) pair at most, of any status
AlocacoesAlternar ==
    UNION {{{[pk |-> (par[1] - 1) * 2 + par[2],
              evento |-> par[2], aluno |-> par[1], status |-> st[par]] :
                par \in S} : st \in [S -> Status]} :
           S \in {T \in SUBSET (Alunos \X {1, 2}) :
                     Cardinality(T) <= MaxAlocacoes}}

InitAlternar ==
    /\ eventos = EventosAlternar
    /\ alocacoes \in AlocacoesAlternar
    /\ seqEvento = 2
    /\ seqAlocacao = NumAlunos * 2
    /\ pedidos = [p \in Pedidos |-> Ocioso]
    /\ CadastroInicial
    /\ last = Resposta("init", {}, 0, 0, "", SemForm, <<>>)

NextAlternar ==
    \/ Cancelar

SpecAlternar == InitAlternar /\ [][NextAlternar]_vars

----------------------------------------------------------------------------
(* Bulk allocation on a registry with workshops: two semesters with one    *)
(* class each, the second semester active or not, students with any fixed  *)
(* workshops, an event with any workshops and an event with none           *)

EventosOficinas ==
    {{[pk |-> 1, tipo |-> ESPORADICO, inicio |-> combine(0, 0),
       fim |-> combine(0, 1), peso |-> 1, cancelado |-> FALSE,
       titulo |-> "A", local |-> "", oficinas |-> o],
      [pk |-> 2, tipo |-> ESPORADICO, inicio |-> combine(1, 0),
       fim |-> combine(1, 1), peso |-> 1, cancelado |-> FALSE,
       titulo |-> "B", local |-> "", oficinas |-> {}]} :
        o \in SUBSET Oficinas}

\* the students alternate between the two classes
AlunosOficinas ==
    {{[pk |-> a, turma |-> ((a - 1) % 2) + 1, oficinas_fixas |-> f[a]] :
        a \in Alunos} : f \in [Alunos -> SUBSET Oficinas]}

\* no allocation, or one of any student to any of the events, of any status
AlocacoesOficinas ==
    {{}} \cup
    {{[pk |-> 1, evento |-> e, aluno |-> a, status |-> s]} :
        e \in {1, 2}, a \in Alunos, s \in Status}

InitOficinas ==
    /\ eventos \in EventosOficinas
    /\ alocacoes \in AlocacoesOficinas
    /\ seqEvento = 2
    /\ seqAlocacao = Cardinality(alocacoes)
    /\ pedidos = [p \in Pedidos |-> Ocioso]
    /\ semestres \in {{[pk |-> 1, ativo |-> TRUE], [pk |-> 2, ativo |-> b]} :
                        b \in BOOLEAN}
    /\ turmas = {[pk |-> 1, semestre |-> 1], [pk |-> 2, semestre |-> 2]}
    /\ alunos \in AlunosOficinas
    /\ seqCadastro = [semestre |-> 2, turma |-> 2, aluno |-> NumAlunos]
    /\ last = Resposta("init", {}, 0, 0, "", SemForm, <<>>)

NextOficinas ==
    \/ AlocarPostUm
    \/ AlocarClean
    \/ AlocarInsert

SpecOficinas == InitOficinas /\ [][NextOficinas]_vars

----------------------------------------------------------------------------
(* The leaderboard over more students than it lists: one event, at which   *)
(* any of the students was Present                                         *)

AlunosRanking == 1..NumAlunosRanking

InitRanking ==
    /\ eventos = {[pk |-> 1, tipo |-> ESPORADICO, inicio |-> combine(0, 0),
                   fim |-> combine(0, 1), peso |-> 1, cancelado |-> FALSE,
      titulo |-> "A", local |-> "", oficinas |-> {}]}
    /\ alocacoes \in
          {{[pk |-> a, evento |-> 1, aluno |-> a, status |-> PRESENTE] :
              a \in S} : S \in SUBSET AlunosRanking}
    /\ seqEvento = 1
    /\ seqAlocacao = NumAlunosRanking
    /\ pedidos = [p \in Pedidos |-> Ocioso]
    /\ semestres \in {{[pk |-> 1, ativo |-> TRUE], [pk |-> 2, ativo |-> b]} :
                        b \in BOOLEAN}
    /\ turmas = {[pk |-> 1, semestre |-> 1], [pk |-> 2, semestre |-> 2]}
    /\ alunos = {[pk |-> a, turma |-> ((a - 1) % 2) + 1,
                 oficinas_fixas |-> {}] :
                    a \in AlunosRanking}
    /\ seqCadastro = [semestre |-> 2, turma |-> 2,
                      aluno |-> NumAlunosRanking]
    /\ last = Resposta("init", {}, 0, 0, "", SemForm, <<>>)

NextRanking ==
    \/ RelatorioGeral

SpecRanking == InitRanking /\ [][NextRanking]_vars

----------------------------------------------------------------------------
(* The registry built from nothing: semesters, classes and students are    *)
(* created, changed and deleted; events are created and deleted; students  *)
(* are allocated                                                           *)

InitCadastro ==
    /\ eventos = {}
    /\ alocacoes = {}
    /\ seqEvento = 0
    /\ seqAlocacao = 0
    /\ pedidos = [p \in Pedidos |-> Ocioso]
    /\ semestres = {}
    /\ turmas = {}
    /\ alunos = {}
    /\ seqCadastro = [semestre |-> 0, turma |-> 0, aluno |-> 0]
    /\ last = Resposta("init", {}, 0, 0, "", SemForm, <<>>)

SemestreCriar == \E b \in BOOLEAN : SemestreCreateView_post(b)

SemestreEditar ==
    \E x \in semestres, b \in BOOLEAN : SemestreUpdateView_post(x.pk, b)

SemestreExcluir == \E x \in semestres : SemestreDeleteView_post(x.pk)

\* the posted semester is any primary key, listed by the form or not
TurmaCriar == \E x \in 1..MaxSemestres : TurmaCreateView_post(x)

TurmaEditar ==
    \E t \in turmas, x \in 1..MaxSemestres : TurmaUpdateView_post(t.pk, x)

TurmaExcluir == \E t \in turmas : TurmaDeleteView_post(t.pk)

AlunoCriar == \E t \in 1..MaxTurmas : AlunoCreateView_post(t)

AlunoEditar ==
    \E a \in alunos, t \in 1..MaxTurmas : AlunoUpdateView_post(a.pk, t)

AlunoLote ==
    \E t \in 1..MaxTurmas, n \in 0..MaxAlunosCadastro :
        AlunoBulkCreateView_post(t, n)

AlunoExcluir == \E a \in alunos : AlunoDeleteView_post(a.pk)

EventoExcluir == \E e \in EventoPks : EventoDeleteView_post(e)

\* the admin's add view for a registered student
SalvarCadastrado ==
    \E a \in alunos, e \in EventoPks :
        AlocacaoPresencaAdmin_add(a.pk, e, PREVISTO)

NextCadastro ==
    \/ SemestreCriar
    \/ SemestreEditar
    \/ SemestreExcluir
    \/ TurmaCriar
    \/ TurmaEditar
    \/ TurmaExcluir
    \/ AlunoCriar
    \/ AlunoEditar
    \/ AlunoLote
    \/ AlunoExcluir
    \/ CriarEventoDiaInteiro
    \/ EventoExcluir
    \/ SalvarCadastrado

SpecCadastro == InitCadastro /\ [][NextCadastro]_vars

\* semesters switched on and off while classes and students are saved and
\* the pages with selection lists are shown
TurmaCopiar ==
    \E t \in turmas, x \in 1..MaxSemestres : TurmaCopiarView_post(t.pk, x)

ListarTurmas == TurmaListView_get

FormTurma == TurmaCreateView_get

FormAluno == AlunoCreateView_get

FormAlocar == \E e \in EventoPks : EventoAlocarView_get(e)

NextSeletores ==
    \/ SemestreCriar
    \/ SemestreEditar
    \/ TurmaCriar
    \/ TurmaEditar
    \/ TurmaCopiar
    \/ AlunoCriar
    \/ AlunoEditar
    \/ AlunoLote
    \/ CriarEventoDiaInteiro
    \/ ListarTurmas
    \/ FormTurma
    \/ FormAluno
    \/ FormAlocar

SpecSeletores == InitCadastro /\ [][NextSeletores]_vars

\* events created from any form and edited to any window and weight
CriarQualquer == \E f \in PedidosEvento : EventoCreateView_post(f)

EditarQualquer ==
    \E e \in EventoPks : \E n \in EdicoesEvento(e) :
        EventoUpdateView_post(e, n)

NextEventos ==
    \/ CriarQualquer
    \/ EditarQualquer

SpecEventos == Init /\ [][NextEventos]_vars

----------------------------------------------------------------------------
(* The properties *)

\* the events of the allocations a and b overlap, half-open:
\* A.event.start < B.event.end and A.event.end > B.event.start
JanelasSobrepostas(a, b) ==
    /\ EventoDe(a.evento).inicio < EventoDe(b.evento).fim
    /\ EventoDe(a.evento).fim > EventoDe(b.evento).inicio

\* Planned or Present
Ativa(a) == a.status \in {PREVISTO, PRESENTE}

\* no student holds two Planned/Present allocations with overlapping events
SemSobreposicao ==
    \A a \in alocacoes : \A b \in alocacoes :
        (a.pk # b.pk /\ a.aluno = b.aluno /\ Ativa(a) /\ Ativa(b))
            => ~JanelasSobrepostas(a, b)

\* C1: after any sequence of validated saves (AlocacaoPresenca.save without
\* skip_validation, one after the other) no student holds two Planned or
\* Present allocations whose events overlap: the save that would be the
\* second of such a pair fails with the conflict error and stores nothing.
C1_SavesValidadosSemSobreposicao ==
    /\ SemSobreposicao
    /\ (last.op = "save" /\ last.erros = {} /\ last.status \in StatusAtivos)
        => \A a \in alocacoes :
              (a.aluno = last.aluno /\ Ativa(a) /\ a.pk # seqAlocacao)
                => ~(/\ EventoDe(a.evento).inicio < EventoDe(last.evento).fim
                     /\ EventoDe(a.evento).fim > EventoDe(last.evento).inicio)

\* C1 witness: a validated save of a Planned/Present candidate was refused
\* with the conflict error while the student holds a Planned/Present
\* allocation to another, overlapping event
C1_Witness ==
    /\ last.op = "save"
    /\ "conflito" \in last.erros
    /\ last.status \in StatusAtivos
    /\ \E a \in alocacoes :
          /\ a.aluno = last.aluno
          /\ Ativa(a)
          /\ a.evento # last.evento
          /\ EventoDe(a.evento).inicio < EventoDe(last.evento).fim
          /\ EventoDe(a.evento).fim > EventoDe(last.evento).inicio

\* C2: under concurrent bulk-allocation requests (each doing check-then-
\* insert) the no-overlap invariant holds: never do two requests both pass
\* the conflict check and both commit allocations of one student to
\* overlapping events.
C2_SemSobreposicaoConcorrente ==
    \A al \in Alunos :
        \A a, b \in {x \in alocacoes : x.aluno = al /\ Ativa(x)} :
            a.evento # b.evento => ~JanelasSobrepostas(a, b)

\* C3: attendance marking never creates a new overlap: if no student holds
\* two overlapping Planned/Present allocations before PresencaForm.save, none
\* does after it.
C3_MarcarNaoCriaSobreposicao ==
    [][(last'.op = "presenca" /\ SemSobreposicao) => SemSobreposicao']_vars

\* C4: an event edit never leaves a student with two Planned/Present
\* allocations whose events overlap: if there is none before
\* EventoUpdateView.post, there is none after it.
C4_EditarNaoCriaSobreposicao ==
    [][(last'.op = "editar" /\ SemSobreposicao) => SemSobreposicao']_vars

\* C5: a validated save of a candidate with status Absent or Excused never
\* fails with the conflict error; and a save that fails with the conflict
\* error always has a Planned/Present allocation of the same student to an
\* overlapping event in the store, so that Absent and Excused allocations
\* never cause the rejection.
C5_AusenteDispensadoForaDoConflito ==
    (last.op \in {"save", "resave"}) =>
        /\ last.status \in {AUSENTE, DISPENSADO} => "conflito" \notin last.erros
        /\ "conflito" \in last.erros =>
              \E a \in alocacoes :
                  /\ a.aluno = last.aluno
                  /\ a.status \in {PREVISTO, PRESENTE}
                  /\ EventoDe(a.evento).inicio < EventoDe(last.evento).fim
                  /\ EventoDe(a.evento).fim > EventoDe(last.evento).inicio

\* C5 witness: a Planned/Present candidate was saved although the student
\* holds an Absent or Excused allocation to another, overlapping event
C5_Witness ==
    /\ last.op = "save"
    /\ last.erros = {}
    /\ last.status \in StatusAtivos
    /\ \E a \in alocacoes :
          /\ a.aluno = last.aluno
          /\ a.status \in {AUSENTE, DISPENSADO}
          /\ a.evento # last.evento
          /\ EventoDe(a.evento).inicio < EventoDe(last.evento).fim
          /\ EventoDe(a.evento).fim > EventoDe(last.evento).inicio

\* C6: at most one allocation exists per (event, student) pair in every
\* reachable state, also when two bulk-allocation requests for one event
\* run concurrently and select the same student.
C6_UmaAlocacaoPorPar ==
    \A a \in alocacoes : \A b \in alocacoes :
        (a.evento = b.evento /\ a.aluno = b.aluno) => a = b

\* C6 witness: of two concurrent requests that both passed validation for
\* the same (event, student) pair, the second INSERT was refused by the
\* unique index, and the pair has its one allocation
C6_Witness ==
    /\ last.op = "alocar_insert"
    /\ last.erros = {"integridade"}
    /\ alocacoes # {}

\* the stride the cadence of the form f stands for: Weekly 7 days, Biweekly
\* 14 days, Custom the interval given
PassoDeclarado(f) ==
    CASE f.periodo = "semanal" -> 7
      [] f.periodo = "quinzenal" -> 14
      [] OTHER -> f.intervalo_dias

\* the sequence ds is exactly s, s+n, s+2n, ... up to the last one <= e
ProgressaoAte(ds, s, n, e) ==
    /\ Len(ds) >= 1
    /\ \A i \in 1..Len(ds) : ds[i] = s + (i - 1) * n
    /\ ds[Len(ds)] <= e
    /\ s + Len(ds) * n > e

\* C7: for a Periodic request with start date s, interval n >= 1 and end date
\* e > s the generated list is exactly [s, s+n, s+2n, ...] with every
\* s+k*n <= e and no other date, in increasing order, the end date included:
\* start day 0 (2024-03-04), weekly, end day 21 (2024-03-25) gives 4 dates;
\* start day 0, every 3 days, end day 6 (2024-03-10) gives days 0, 3, 6.
C7_DatasGeradas ==
    (last.op = "datas" /\ last.erros = {} /\ last.form.tipo = PERIODICO) =>
        /\ ProgressaoAte(last.datas, last.form.data, PassoDeclarado(last.form),
                         last.form.data_fim_recorrencia)
        /\ (/\ last.form.data = 0
            /\ last.form.periodo = "semanal"
            /\ last.form.data_fim_recorrencia = 21)
                => last.datas = <<0, 7, 14, 21>>
        /\ (/\ last.form.data = 0
            /\ last.form.periodo = "personalizado"
            /\ last.form.intervalo_dias = 3
            /\ last.form.data_fim_recorrencia = 6)
                => last.datas = <<0, 3, 6>>

\* C7 witness: the weekly request from day 0 to day 21 was generated, the
\* end date being the fourth date
C7_Witness ==
    /\ last.op = "datas"
    /\ last.form.tipo = PERIODICO
    /\ last.form.periodo = "semanal"
    /\ last.form.data = 0
    /\ last.form.data_fim_recorrencia = 21
    /\ Len(last.datas) = 4

\* the fields of the form f other than the recurrence fields are well
\* formed and the end time is after the start time
CamposBaseValidos(f) ==
    /\ f.tipo \in Tipo
    /\ f.data # Nulo
    /\ f.hora_inicio # Nulo
    /\ f.hora_fim # Nulo
    /\ f.hora_fim > f.hora_inicio
    /\ f.peso_presenca >= 1

\* the step created exactly one event, on the start date of the form f
UmEventoCriado(f) ==
    /\ last'.datas = <<f.data>>
    /\ seqEvento' = seqEvento + 1
    /\ eventos \subseteq eventos'
    /\ \E e \in eventos' \ eventos :
          /\ eventos' = eventos \cup {e}
          /\ e.inicio = combine(f.data, f.hora_inicio)
          /\ e.fim = combine(f.data, f.hora_fim)

\* C8 as stated: for a Sporadic request exactly one date, the start date,
\* is used and exactly one event is created, whatever the recurrence fields
\* (cadence, custom interval, recurrence end date) carry.
C8_EsporadicoQualquerCampo ==
    [][(/\ last'.op = "criar"
        /\ last'.form.tipo = ESPORADICO
        /\ CamposBaseValidos(last'.form))
            => UmEventoCriado(last'.form)]_vars

\* C8 amended: for a Sporadic request that EventoCriarForm accepts exactly
\* one date, the start date, is used and exactly one event is created,
\* whatever cadence, custom interval >= 1 and recurrence end date it
\* carries; a Sporadic request with a custom interval below 1 is rejected
\* and creates no event.
C8_EsporadicoAceito ==
    [][(last'.op = "criar" /\ last'.form.tipo = ESPORADICO)
        => IF last'.form.intervalo_dias # Nulo /\ last'.form.intervalo_dias < 1
           THEN "intervalo_dias" \in last'.erros /\ eventos' = eventos
           ELSE CamposBaseValidos(last'.form) => UmEventoCriado(last'.form)]_vars

\* C8 witness: a Sporadic request that carries a cadence, a custom interval
\* and a recurrence end date after its start date created its one event
C8_Witness ==
    /\ last.op = "criar"
    /\ last.erros = {}
    /\ last.form.tipo = ESPORADICO
    /\ last.form.periodo = "personalizado"
    /\ last.form.intervalo_dias = 1
    /\ last.form.data_fim_recorrencia # Nulo
    /\ last.form.data_fim_recorrencia > last.form.data
    /\ Len(last.datas) = 1

\* the preconditions of date generation
Precondicoes(f) ==
    /\ f.hora_fim > f.hora_inicio
    /\ f.tipo = PERIODICO =>
          /\ f.periodo \in {"semanal", "quinzenal", "personalizado"}
          /\ f.data_fim_recorrencia # Nulo
          /\ f.data_fim_recorrencia > f.data
          /\ f.periodo = "personalizado" =>
                (f.intervalo_dias # Nulo /\ f.intervalo_dias >= 1)

\* C9: every event-creation request that reaches date generation satisfies
\* the preconditions: end time > start time and, when Periodic, a cadence, a
\* recurrence end date strictly after the start date and, when Custom, a
\* custom interval >= 1; a request violating one of them is rejected.
C9_PrecondicoesDaGeracao ==
    (last.op = "criar") =>
        /\ last.erros = {} => Precondicoes(last.form)
        /\ ~Precondicoes(last.form) => (last.erros # {} /\ last.datas = <<>>)

\* C9 witness: a Periodic request with the Custom cadence was accepted and
\* its dates generated
C9_Witness ==
    /\ last.op = "criar"
    /\ last.erros = {}
    /\ last.form.tipo = PERIODICO
    /\ last.form.periodo = "personalizado"
    /\ Len(last.datas) >= 2

\* C10: when EventoCriarForm rejects the request (a missing recurrence
\* field, an end not after the start) no event is created: the stored
\* events are unchanged.
C10_RejeitadoNadaGrava ==
    [][(last'.op = "criar" /\ (last'.erros # {} \/ ~Precondicoes(last'.form)))
        => (eventos' = eventos /\ seqEvento' = seqEvento)]_vars

\* C10 witness: a Periodic request without recurrence end date was rejected
\* while an event is stored
C10_Witness ==
    /\ last.op = "criar"
    /\ "data_fim_recorrencia" \in last.erros
    /\ last.form.tipo = PERIODICO
    /\ last.form.data_fim_recorrencia = Nulo
    /\ eventos # {}

\* C11: creation of the events of one recurrence request is all-or-nothing:
\* when one of the saves of the loop fails, no event of the request remains
\* stored.
C11_SerieTudoOuNada ==
    [][last'.op = "criar_falha" => eventos' = eventos]_vars

\* the counts of the request p after a step: those of the response when the
\* step ended the request
CriadosApos(p) ==
    IF pedidos'[p].pc = "idle" THEN last'.criados ELSE pedidos'[p].criados

FalhasApos(p) ==
    IF pedidos'[p].pc = "idle" THEN last'.falhas ELSE pedidos'[p].erros

\* the step finished the student the request p was at
TerminouAluno(p) ==
    /\ pedidos[p].pc # "idle"
    /\ pedidos'[p].pc = "idle" \/ pedidos'[p].fila # pedidos[p].fila

\* C12: bulk allocation is partial: each selected student ends either with a
\* new Planned allocation to the event and one more `criados`, or with no
\* write and one more error; after a failure the loop goes on with the
\* remaining students; and the response's created + errors is the number of
\* selected students.
C12_AlocacaoEmLoteParcial ==
    [][\A p \in Pedidos :
        TerminouAluno(p) =>
            /\ \/ /\ CriadosApos(p) = pedidos[p].criados + 1
                  /\ FalhasApos(p) = pedidos[p].erros
                  /\ last'.erros = {}
                  /\ alocacoes' = alocacoes \cup
                        {[Candidato(p) EXCEPT !.pk = seqAlocacao']}
                  /\ \A a \in alocacoes : a.pk # seqAlocacao'
               \/ /\ CriadosApos(p) = pedidos[p].criados
                  /\ FalhasApos(p) = pedidos[p].erros + 1
                  /\ last'.erros # {}
                  /\ alocacoes' = alocacoes
            /\ IF UltimoDaFila(p)
               THEN /\ pedidos'[p].pc = "idle"
                    /\ CriadosApos(p) + FalhasApos(p) =
                          Cardinality(pedidos[p].selecionados)
               ELSE /\ pedidos'[p].pc = "clean"
                    /\ pedidos'[p].fila = pedidos[p].fila \ {AlunoDaVez(p)}
                    /\ pedidos'[p].selecionados = pedidos[p].selecionados
    ]_vars

\* a request for two students has ended with one allocation created and one
\* error
C12_Witness ==
    /\ last.op \in {"alocar_clean", "alocar_insert"}
    /\ last.criados = 1
    /\ last.falhas = 1

\* the allocations of the students `quem` to events that are not cancelled
AlocacoesDoEscopo(quem) ==
    {a \in alocacoes : a.aluno \in quem /\ ~EventoDe(a.evento).cancelado}

\* round(100 * count(Present) / (count(Present) + count(Absent))), 0 when
\* the denominator is 0
PercentualDeclarado(rows) ==
    LET presentes == Cardinality({a \in rows : a.status = PRESENTE})
        ausentes == Cardinality({a \in rows : a.status = AUSENTE})
    IN IF presentes + ausentes = 0 THEN 0
       ELSE round(100 * presentes, presentes + ausentes)

\* C13: the attendance percentage of the per-class, per-student and
\* system-wide reports is round(100 * Present / (Present + Absent)), 0 when
\* there is neither; Planned and Excused allocations count in neither term.
C13_PercentualPresenteSobrePresenteAusente ==
    /\ last.op = "relatorio_turma" =>
          \A d \in last.relatorio :
              d.percentual = PercentualDeclarado(AlocacoesDoEscopo({d.aluno}))
    /\ last.op = "relatorio_aluno" =>
          last.relatorio.percentual =
              PercentualDeclarado(AlocacoesDoEscopo({last.evento}))
    /\ last.op = "relatorio_geral" =>
          last.relatorio.percentual_presenca =
              PercentualDeclarado(
                  AlocacoesDoEscopo({a.pk : a \in AlunosAtivos}))

\* the events that count for the student: not cancelled, with a Present
\* allocation of the student
EventosPontuados(aluno) ==
    {e \in eventos :
        /\ ~e.cancelado
        /\ \E a \in alocacoes :
              a.aluno = aluno /\ a.evento = e.pk /\ a.status = PRESENTE}

RECURSIVE SomaPesos(_)
SomaPesos(evs) ==
    IF evs = {} THEN 0
    ELSE LET e == CHOOSE x \in evs : TRUE
         IN e.peso + SomaPesos(evs \ {e})

\* total_points(student)
PontosDeclarados(aluno) == SomaPesos(EventosPontuados(aluno))

NaoCancelados(quem, st) ==
    Cardinality({a \in AlocacoesDoEscopo(quem) : a.status = st})

IntegridadeReferencial ==
    /\ \A t \in turmas : \E x \in semestres : x.pk = t.semestre
    /\ \A a \in alunos : \E t \in turmas : t.pk = a.turma
    /\ \A x \in alocacoes :
          /\ \E a \in alunos : a.pk = x.aluno
          /\ \E e \in eventos : e.pk = x.evento

\* C17: deleting a Semester that has a Class fails and changes nothing;
\* deleting a Class deletes its Students and their Allocations, and nothing
\* else; after any creations, changes and deletions every Class has its
\* Semester, every Student its Class, every Allocation its Student and its
\* Event.
C17_ExclusoesProtegidasEEmCascata ==
    /\ []IntegridadeReferencial
    /\ [][((/\ last'.op = "semestre_excluir"
             /\ \E t \in turmas : t.semestre = last'.evento)
            => (/\ last'.erros # {}
                /\ UNCHANGED <<eventos, alocacoes, cadastro>>))
          /\ (last'.op = "turma_excluir" =>
                LET doTurma == {a.pk : a \in {x \in alunos :
                                                 x.turma = last'.evento}}
                IN /\ turmas' = {t \in turmas : t.pk # last'.evento}
                   /\ alunos' = {a \in alunos : a.pk \notin doTurma}
                   /\ alocacoes' =
                         {x \in alocacoes : x.aluno \notin doTurma}
                   /\ UNCHANGED <<eventos, semestres>>)]_vars

\* a class was deleted with a student and the student's allocation, while
\* the student of another class keeps an allocation
C17_Witness ==
    /\ last.op = "turma_excluir"
    /\ seqCadastro.aluno = 2
    /\ Cardinality(alunos) = 1
    /\ seqAlocacao = 2
    /\ Cardinality(alocacoes) = 1
    /\ seqCadastro.turma = 2
    /\ Cardinality(turmas) = 1

\* the semester of the class t is active
TurmaDeSemestreAtivo(t) ==
    \E x \in semestres : x.pk = t.semestre /\ x.ativo

\* C20: a deactivated semester is hidden from every picker: no class is
\* saved with an inactive semester, no student is saved or bulk-created in a
\* class of an inactive semester, no student of an inactive semester is
\* offered for allocation, and no selection list shows an inactive
\* semester or a class of one.
C20_SemestreInativoOculto ==
    /\ []((last.op \in {"turma_lista", "turma_form", "aluno_form",
                        "alocar_lista"}) =>
            /\ \A pk \in last.relatorio.semestres :
                  \E x \in semestres : x.pk = pk /\ x.ativo
            /\ \A pk \in last.relatorio.turmas :
                  \E t \in turmas : t.pk = pk /\ TurmaDeSemestreAtivo(t)
            /\ \A pk \in last.relatorio.alunos :
                  \E a \in alunos, t \in turmas :
                      a.pk = pk /\ t.pk = a.turma /\ TurmaDeSemestreAtivo(t))
    /\ [][/\ \A t \in turmas' \ turmas : TurmaDeSemestreAtivo(t)
          /\ \A a \in alunos' \ alunos :
                \E t \in turmas' : t.pk = a.turma /\ TurmaDeSemestreAtivo(t)
       ]_vars

\* C18: every stored event ends strictly after it starts, whatever events
\* are created (one-off or recurring) and edited; a creation or an edit that
\* is accepted stores only such events, and one that is rejected, as every
\* one with end <= start is, changes nothing.
C18_FimDepoisDoInicio ==
    /\ [](\A e \in eventos : e.fim > e.inicio)
    /\ [][/\ (/\ last'.op = "criar"
               /\ last'.form.hora_inicio # Nulo
               /\ last'.form.hora_fim # Nulo
               /\ last'.form.hora_fim <= last'.form.hora_inicio)
              => last'.erros # {}
          /\ (last'.op \in {"criar", "editar"} /\ last'.erros # {})
              => UNCHANGED <<eventos, alocacoes, seqEvento>>
          /\ (last'.op = "editar" /\ last'.erros = {})
              => \E e \in eventos' :
                    e.pk = last'.evento /\ e.fim > e.inicio
       ]_vars

\* two events of a series are stored, one of them was moved by an edit, and
\* an edit was just rejected
C18_Witness ==
    /\ last.op = "editar"
    /\ "__all__" \in last.erros
    /\ Cardinality(eventos) = 2
    /\ \E e \in eventos : e.tipo = PERIODICO /\ e.inicio = combine(1, 0)
    /\ \E e \in eventos : e.tipo = PERIODICO /\ e.inicio = combine(0, 1)

\* C19: every stored event has a weight >= 1, whatever events are created
\* through EventoCriarForm and edited through EventoForm.
C19_PesoPeloMenosUm ==
    \A e \in eventos : e.peso >= 1

\* the rows `rows` hold a Planned/Present allocation of the student, other
\* than the candidate's own stored record, whose event overlaps the event
\* `evento` half-open.  A candidate of "save" is not stored yet; the stored
\* record of a "resave" candidate is the row of its (event, student) pair.
OutraAlocacaoSobreposta(rows, op, aluno, evento) ==
    \E a \in rows :
        /\ a.aluno = aluno
        /\ Ativa(a)
        /\ (op = "resave" => a.evento # evento)
        /\ EventoDe(a.evento).inicio < EventoDe(evento).fim
        /\ EventoDe(a.evento).fim > EventoDe(evento).inicio

\* C21: a validated save of a Planned/Present candidate is rejected for
\* conflict if and only if the student has another Planned/Present allocation
\* whose event has other.start < candidate.end and other.end >
\* candidate.start; so back-to-back events do not conflict, and a candidate
\* with no such other allocation is never rejected for conflict.
C21_ConflitoSeESomenteSeSobrepoe ==
    [][(last'.op \in {"save", "resave"} /\ last'.status \in StatusAtivos)
          => ("conflito" \in last'.erros
                <=> OutraAlocacaoSobreposta(alocacoes, last'.op, last'.aluno,
                                            last'.evento))
      ]_vars

\* C21 witness: a Planned/Present candidate was saved while the student holds
\* a Planned/Present allocation to the event that ends at the instant the
\* candidate's event starts
C21_Witness ==
    /\ last.op = "save"
    /\ last.erros = {}
    /\ last.status \in StatusAtivos
    /\ \E a \in alocacoes :
          /\ a.aluno = last.aluno
          /\ Ativa(a)
          /\ a.evento # last.evento
          /\ EventoDe(a.evento).fim = EventoDe(last.evento).inicio


\* the stored allocation of the pair (evento, aluno) is Planned or Present
ParAtivo(rows, aluno, evento) ==
    \E a \in rows : a.evento = evento /\ a.aluno = aluno /\ Ativa(a)

\* C22: re-saving an already stored Planned/Present allocation, with or
\* without a change of status among Planned/Present, never fails with a
\* conflict caused by itself: the conflict error needs another allocation of
\* the student that overlaps, and with none the re-save goes through.  A
\* candidate that is not stored yet, for an (event, student) pair that
\* already has a Planned/Present allocation, is rejected and stores nothing.
C22_ProprioRegistroExcluido ==
    [][/\ (/\ last'.op = "resave"
           /\ last'.status \in StatusAtivos
           /\ ParAtivo(alocacoes, last'.aluno, last'.evento))
          => /\ "conflito" \in last'.erros
                  => OutraAlocacaoSobreposta(alocacoes, "resave",
                                             last'.aluno, last'.evento)
             /\ ~OutraAlocacaoSobreposta(alocacoes, "resave", last'.aluno,
                                         last'.evento)
                  => /\ last'.erros = {}
                     /\ \E a \in alocacoes' :
                           /\ a.evento = last'.evento
                           /\ a.aluno = last'.aluno
                           /\ a.status = last'.status
       /\ (/\ last'.op = "save"
           /\ last'.status \in StatusAtivos
           /\ ParAtivo(alocacoes, last'.aluno, last'.evento))
          => /\ "conflito" \in last'.erros
             /\ UNCHANGED <<alocacoes, seqAlocacao>>
      ]_vars

\* C22 witness: the only allocation ever stored was re-saved with status
\* Present and the re-save, validated against a store that holds that very
\* row, raised no error
C22_Witness ==
    /\ last.op = "resave"
    /\ last.erros = {}
    /\ last.status = PRESENTE
    /\ seqAlocacao = 1
    /\ \E a \in alocacoes :
          /\ a.evento = last.evento
          /\ a.aluno = last.aluno
          /\ a.status = PRESENTE


\* the stride the claim gives to the cadence of the form f
PassoDaCadencia(f) ==
    IF f.periodo = "semanal" THEN 7
    ELSE IF f.periodo = "quinzenal" THEN 14
    ELSE f.intervalo_dias

\* C23: for every accepted Periodic request the stride of the generation is
\* 7 days for Weekly, 14 days for Biweekly and the custom interval, which is
\* then >= 1, for Custom: consecutive generated dates are that far apart and
\* the date one stride after the last is beyond the end date.  A custom
\* interval sent along with Weekly or Biweekly is ignored: whatever it is,
\* the same dates come out.
C23_PassoDaRecorrencia ==
    (/\ last.op = "datas"
     /\ last.erros = {}
     /\ last.form.tipo = PERIODICO)
    => /\ last.form.periodo \in PERIODO_CHOICES
       /\ last.form.periodo = "personalizado" => last.form.intervalo_dias >= 1
       /\ Intervalo(last.form) = PassoDaCadencia(last.form)
       /\ \A i \in 1..(Len(last.datas) - 1) :
             last.datas[i + 1] - last.datas[i] = PassoDaCadencia(last.form)
       /\ last.datas[Len(last.datas)] + PassoDaCadencia(last.form)
             > last.form.data_fim_recorrencia
       /\ last.form.periodo \in {"semanal", "quinzenal"}
             => \A n \in {Nulo} \cup (0..MaxIntervaloGerador) :
                   GerarDatas([last.form EXCEPT !.intervalo_dias = n])
                       = last.datas

\* C23 witness: a Weekly request that carries a custom interval of 3 days
\* generated dates 7 days apart
C23_Witness ==
    /\ last.op = "datas"
    /\ last.erros = {}
    /\ last.form.tipo = PERIODICO
    /\ last.form.periodo = "semanal"
    /\ last.form.intervalo_dias = 3
    /\ Len(last.datas) >= 3
    /\ last.datas[2] - last.datas[1] = 7


\* the event e carries the shared attributes of the form f
AtributosDoPedido(e, f) ==
    /\ e.titulo = f.titulo
    /\ e.tipo = f.tipo
    /\ e.local = f.local
    /\ e.peso = f.peso_presenca
    /\ e.oficinas = f.oficinas

\* C24: an accepted request creates exactly one event per generated date,
\* from the date combined with the shared start time to the same date
\* combined with the shared end time; all the events of the request have the
\* same title, type, location, weight and workshops, those of the request;
\* and the count reported is the number of generated dates.
C24_UmEventoPorData ==
    [][(last'.op = "criar" /\ last'.erros = {})
          => /\ eventos \subseteq eventos'
             /\ Cardinality(eventos' \ eventos) = Len(last'.datas)
             /\ last'.criados = Len(last'.datas)
             /\ \A i \in 1..Len(last'.datas) :
                   \E e \in eventos' \ eventos :
                       /\ e.inicio = combine(last'.datas[i],
                                             last'.form.hora_inicio)
                       /\ e.fim = combine(last'.datas[i],
                                          last'.form.hora_fim)
             /\ \A e \in eventos' \ eventos :
                   /\ AtributosDoPedido(e, last'.form)
                   /\ \E i \in 1..Len(last'.datas) :
                         e.inicio = combine(last'.datas[i],
                                            last'.form.hora_inicio)
             /\ \A a, b \in eventos' \ eventos :
                   /\ a.titulo = b.titulo
                   /\ a.tipo = b.tipo
                   /\ a.local = b.local
                   /\ a.peso = b.peso
                   /\ a.oficinas = b.oficinas
      ]_vars

\* C24 witness: a request with a location and both workshops created two
\* events, on day 0 and on day 2
C24_Witness ==
    /\ last.op = "criar"
    /\ last.erros = {}
    /\ last.datas = <<0, 2>>
    /\ last.criados = 2
    /\ last.form.local = "L"
    /\ last.form.oficinas = Oficinas
    /\ Cardinality(eventos) = 2
    /\ \A e \in eventos : e.oficinas = Oficinas /\ e.local = "L"


\* C25: after an attendance marking of an event every allocation of the
\* event that was not Excused is Present if its student's box was checked
\* and Absent otherwise, so that an unchecked Planned allocation becomes
\* Absent; the Excused allocations of the event, the allocations of other
\* events and the events are unchanged, and no allocation appears or
\* disappears; submitting the same marking again changes nothing.
C25_MarcacaoDePresenca ==
    [][(last'.op = "presenca")
          => /\ \A a \in alocacoes :
                   IF a.evento = last'.evento /\ a.status # DISPENSADO
                   THEN [a EXCEPT !.status =
                             IF a.aluno \in last'.marcados THEN PRESENTE
                             ELSE AUSENTE] \in alocacoes'
                   ELSE a \in alocacoes'
             /\ Cardinality(alocacoes') = Cardinality(alocacoes)
             /\ UNCHANGED <<eventos, seqEvento, seqAlocacao>>
             /\ (/\ last.op = "presenca"
                 /\ last.evento = last'.evento
                 /\ last.marcados = last'.marcados)
                => alocacoes' = alocacoes
      ]_vars

\* C25 witness: after a marking of an event with student 1 checked and
\* student 2 not, student 1 is Present and student 2 Absent
C25_Witness ==
    /\ last.op = "presenca"
    /\ last.marcados = {1}
    /\ \E a \in alocacoes :
          a.evento = last.evento /\ a.aluno = 1 /\ a.status = PRESENTE
    /\ \E a \in alocacoes :
          a.evento = last.evento /\ a.aluno = 2 /\ a.status = AUSENTE


\* every instance a validated save can be called on, over the rows `rows`:
\* a new one, or a stored row with any status
Candidatos(rows) ==
    {[pk |-> 0, evento |-> e, aluno |-> a, status |-> s] :
        e \in EventoPks, a \in Alunos, s \in Status}
    \cup {[x EXCEPT !.status = s] : x \in rows, s \in Status}

\* C26: conflict validation takes no account of the cancelled flag.  A
\* validated save of a Planned/Present candidate is rejected for conflict,
\* and stores nothing, when the student holds a Planned/Present allocation
\* to another, overlapping event that is cancelled; and a step that cancels
\* or restores an event leaves the outcome of the validated save of every
\* candidate as it was.
C26_CanceladoNaoContaNoConflito ==
    [][/\ (/\ last'.op \in {"save", "resave"}
           /\ last'.status \in StatusAtivos
           /\ \E a \in alocacoes :
                 /\ a.aluno = last'.aluno
                 /\ Ativa(a)
                 /\ a.evento # last'.evento
                 /\ EventoDe(a.evento).cancelado
                 /\ EventoDe(a.evento).inicio < EventoDe(last'.evento).fim
                 /\ EventoDe(a.evento).fim > EventoDe(last'.evento).inicio)
          => /\ "conflito" \in last'.erros
             /\ alocacoes' = alocacoes
       /\ (last'.op = "cancelar")
          => /\ \E e \in EventoPks :
                   /\ e = last'.evento
                   /\ EventoDe(e).cancelado' = ~EventoDe(e).cancelado
             /\ \A c \in Candidatos(alocacoes) :
                   ErrosSave(alocacoes, c, EventoDe(c.evento), FALSE)'
                       = ErrosSave(alocacoes, c, EventoDe(c.evento), FALSE)
      ]_vars

\* C26 witness: a Planned/Present candidate was refused with the conflict
\* error, and the only other event, which it overlaps and to which the
\* student is allocated as Planned or Present, is cancelled
C26_Witness ==
    /\ last.op = "save"
    /\ "conflito" \in last.erros
    /\ last.status \in StatusAtivos
    /\ ~EventoDe(last.evento).cancelado
    /\ ~\E a \in alocacoes : a.aluno = last.aluno /\ a.evento = last.evento
    /\ \E a \in alocacoes :
          /\ a.aluno = last.aluno
          /\ Ativa(a)
          /\ a.evento # last.evento
          /\ EventoDe(a.evento).cancelado


\* C27: recurrence generation terminates for every request EventoCriarForm
\* accepts, and every rejected request ends without generating; for an
\* accepted Periodic request the list built has
\* floor((end_date - start_date) / interval_days) + 1 dates, the stride
\* being >= 1, and is the list the events are created from.
C27_GeracaoTermina ==
    /\ (last.op = "entrada") ~> (last.op = "datas")
    /\ [](last.op = "laco" => PassoDaCadencia(last.form) >= 1)
    /\ []((/\ last.op = "datas"
           /\ last.erros = {}
           /\ last.form.tipo = PERIODICO)
          => /\ Len(last.datas)
                   = ((last.form.data_fim_recorrencia - last.form.data)
                        \div PassoDaCadencia(last.form)) + 1
             /\ last.datas = GerarDatas(last.form))

\* C27 witness: the loop of the request from day 0 to day 10 every 3 days
\* was left with 4 dates
C27_Witness ==
    /\ last.op = "datas"
    /\ last.erros = {}
    /\ last.form.tipo = PERIODICO
    /\ last.form.periodo = "personalizado"
    /\ last.form.intervalo_dias = 3
    /\ last.form.data_fim_recorrencia = 10
    /\ last.datas = <<0, 3, 6, 9>>


\* the student the request p is at has an allocation to the request's event
\* after the step
TemAlocacaoDepois(p) ==
    \E a \in alocacoes' :
        a.evento = pedidos[p].evento.pk /\ a.aluno = AlunoDaVez(p)

\* C28 as stated: a validated save that fails (conflict or duplicate pair)
\* leaves the store unchanged, no allocation created or modified; and in a
\* bulk allocation the student whose save failed has no allocation for the
\* event afterwards.
C28_FalhaSemAlocacao ==
    [][/\ (last'.op \in {"save", "resave"} /\ last'.erros # {})
          => UNCHANGED <<alocacoes, seqAlocacao>>
       /\ \A p \in Pedidos :
             (TerminouAluno(p) /\ last'.erros # {})
                => /\ UNCHANGED <<alocacoes, seqAlocacao>>
                   /\ ~TemAlocacaoDepois(p)
      ]_vars

\* C28 amended: a validated save that fails leaves the store unchanged; in
\* a bulk allocation the student whose save failed has an allocation for the
\* event afterwards exactly when the failure is the duplicate pair, the
\* allocation being the one stored before the save by another request.
C28_FalhaNadaGrava ==
    [][/\ (last'.op \in {"save", "resave"} /\ last'.erros # {})
          => UNCHANGED <<alocacoes, seqAlocacao>>
       /\ \A p \in Pedidos :
             (TerminouAluno(p) /\ last'.erros # {})
                => /\ UNCHANGED <<alocacoes, seqAlocacao>>
                   /\ TemAlocacaoDepois(p)
                        <=> (last'.erros \cap {"duplicado", "integridade"}
                                # {})
      ]_vars

\* C28 witness: a bulk request ended with one student allocated and one
\* refused for conflict, and the refused student has no allocation to any
\* event but the one that caused the conflict
C28_Witness ==
    /\ last.op = "alocar_clean"
    /\ last.erros = {"conflito"}
    /\ last.criados = 1
    /\ last.falhas = 1
    /\ Cardinality(alocacoes) = 2
    /\ Cardinality({a.evento : a \in alocacoes}) = 2


\* C29: EventoCancelarView toggles the cancelled flag of the event and
\* nothing else: its title, type, start, end, location, weight and
\* workshops, the other events and every allocation with its status are as
\* before; so the events never differ from the original ones but in their
\* flags, and a second toggle gives back the state before the first.
C29_SoAlternaCancelado ==
    /\ []({[e EXCEPT !.cancelado = FALSE] : e \in eventos} = EventosAlternar)
    /\ [][(last'.op = "cancelar")
             => /\ \E e \in eventos :
                      /\ e.pk = last'.evento
                      /\ eventos' = (eventos \ {e}) \cup
                             {[e EXCEPT !.cancelado = ~e.cancelado]}
                /\ \A e \in eventos : \E n \in eventos' :
                      /\ n.pk = e.pk
                      /\ n.titulo = e.titulo
                      /\ n.tipo = e.tipo
                      /\ n.inicio = e.inicio
                      /\ n.fim = e.fim
                      /\ n.local = e.local
                      /\ n.peso = e.peso
                      /\ n.oficinas = e.oficinas
                      /\ n.cancelado = IF e.pk = last'.evento
                                       THEN ~e.cancelado ELSE e.cancelado
                /\ UNCHANGED <<alocacoes, seqEvento, seqAlocacao, cadastro>>
         ]_vars

\* C29 witness: event 1, which has a location, a workshop and a Present
\* allocation, was cancelled and then restored: the events are the original
\* ones again
C29_Witness ==
    /\ last.op = "cancelar"
    /\ last.evento = 1
    /\ eventos = EventosAlternar
    /\ \E a \in alocacoes : a.evento = 1 /\ a.status = PRESENTE


\* the students the claim lets the bulk-allocate form of the event accept:
\* in a class of an active semester, without an allocation of any status to
\* the event, and, when the event has workshops, with one of them among
\* their fixed workshops
Elegiveis(evento) ==
    {a.pk : a \in
        {b \in alunos :
            /\ \E t \in turmas :
                  /\ t.pk = b.turma
                  /\ \E x \in semestres : x.pk = t.semestre /\ x.ativo
            /\ ~\E al \in alocacoes : al.evento = evento /\ al.aluno = b.pk
            /\ \A e \in eventos :
                  (e.pk = evento /\ e.oficinas # {})
                      => (b.oficinas_fixas \cap e.oficinas # {})}}

\* C30: the bulk-allocate form of an event accepts a selection when all its
\* students are eligible for the event as the form is built; a request that
\* selects any other student is rejected as a whole, starts no allocation
\* and creates none; and every allocation a request creates is a Planned
\* one of a selected student to the request's event.
C30_SoAlunosElegiveis ==
    [][/\ (last'.op = "alocar_form")
          => IF last'.selecionados \subseteq Elegiveis(last'.evento)
             THEN /\ last'.erros = {}
                  /\ \E p \in Pedidos :
                        /\ pedidos[p].pc = "idle"
                        /\ pedidos'[p].pc # "idle"
                        /\ pedidos'[p].evento.pk = last'.evento
                        /\ pedidos'[p].fila = last'.selecionados
                  /\ alocacoes' = alocacoes
             ELSE /\ last'.erros # {}
                  /\ UNCHANGED <<alocacoes, seqAlocacao, pedidos>>
       /\ (alocacoes' # alocacoes)
          => \E p \in Pedidos : \E n \in alocacoes' :
                /\ alocacoes' = alocacoes \cup {n}
                /\ n.evento = pedidos[p].evento.pk
                /\ n.aluno \in pedidos[p].selecionados
                /\ n.status = PREVISTO
      ]_vars

\* C30 witness: a request that selected both students was rejected and the
\* store is empty of allocations; student 1 is eligible, student 2 is in an
\* active semester too but has none of the event's workshops
C30_Witness ==
    /\ last.op = "alocar_form"
    /\ last.erros # {}
    /\ last.selecionados = {1, 2}
    /\ alocacoes = {}
    /\ 1 \in Elegiveis(last.evento)
    /\ \A x \in semestres : x.ativo
    /\ EventoDe(last.evento).oficinas # {}
    /\ \E a \in alunos :
          /\ a.pk = 2
          /\ a.oficinas_fixas # {}
          /\ a.oficinas_fixas \cap EventoDe(last.evento).oficinas = {}


====
